---- MODULE Spec2Model ----
(***************************************************************************)
(* merge_manager: the merge service (services/merge.py), the field         *)
(* strategies (services/strategies.py) and the profile configuration       *)
(* (config.py, settings.py), as a state machine over a transactional       *)
(* store.  The entity schema is the one of tests.py (City, Tag, Office),   *)
(* extended by a Group model whose many-to-many field points at City and   *)
(* by a many-to-many field from City to itself (symmetrical=False), so     *)
(* that the reverse many-to-many branch of _transfer_relations and its     *)
(* processed_through check are exercised.                                  *)
(*                                                                         *)
(* One behaviour is the life of one MergeService instance: Init binds the  *)
(* service to a profile and picks the two objects its caller works on,     *)
(* every call of merge() is a run of the actions Merge .. Else.  The       *)
(* caller fetches fresh instances of the two objects from the store        *)
(* before each call, as the API views do.  The registry, the strategies    *)
(* called on their own, the preview view of api.py alone and both views    *)
(* together (ApiSpec), the loading of profiles from the settings           *)
(* (LoadSpec), the strategy contexts of one merge (ContextSpec) and two    *)
(* merges running at once (ConcurrentSpec) have specifications of their    *)
(* own over the same variables.                                            *)
(***************************************************************************)
EXTENDS Integers, Sequences, FiniteSets, TLC

\* ------------------------------------------------------------------ bounds

\* merge() calls made on one service instance in one behaviour.
MaxCalls == 2

\* Calls of registry methods, next() of an iterator included, in one behaviour.
MaxRegistryOps == 5

\* Requests the preview endpoint receives in one behaviour.
MaxRequests == 2

\* ------------------------------------------------------- program constants

STATUS_COMPLETED == "completed"
STATUS_FAILED == "failed"
STATUS_DRY_RUN == "dry_run"

\* Python's None, and str(None).
NoneVal == "<None>"

\* An empty dict.
EmptyDict == [k \in {} |-> TRUE]

\* settings.DEFAULTS
SOFT_DELETE_FIELD == "is_active"
SOFT_DELETE_VALUE == FALSE
FIELD_STRATEGIES == {"prefer_target", "prefer_donor", "prefer_non_null", "concat"}

\* Exceptions, as [type, msg].
Exc(type, msg) == [type |-> type, msg |-> msg]
MergeValidationError(msg) == Exc("MergeValidationError", msg)
StrategyImportError == Exc("ImportError", "no.such.strategy doesn't look like a module path")
StrategyNotFoundError == Exc("StrategyNotFoundError", "Unable to resolve field merge strategy None")
HookError(name) == Exc("HookError", name)
\* What a failing store write raises, whichever row it was about.
DatabaseError == Exc("DatabaseError", "the store refused the write")
AuditError == Exc("DatabaseError", "the store refused the audit row")
NoExc == Exc(NoneVal, NoneVal)

\* ------------------------------------------------------------ the schema

\* Primary keys of the City rows of the fixture.
Cities == {"c1", "c2", "c3"}

\* Attributes of a City instance (hasattr).
CityAttrs ==
  {"pk", "name", "code", "is_active", "tags", "twinned", "offices", "groups",
   "twinned_by"}

\* The relations of City as _transfer_relations meets them: the forward
\* many-to-many fields first, then the auto-created reverse relations.
\* A through row is <<owner pk, remote pk>>; side is City's position in it.
Relations ==
  << [name |-> "tags", kind |-> "many_to_many", through |-> "City_tags",
      side |-> 1, related_model |-> "merge_manager.Tag"],
     [name |-> "twinned", kind |-> "many_to_many", through |-> "City_twinned",
      side |-> 1, related_model |-> "merge_manager.City"],
     [name |-> "offices", kind |-> "one_to_many", through |-> NoneVal,
      side |-> 0, related_model |-> "merge_manager.Office"],
     [name |-> "groups", kind |-> "many_to_many_reverse", through |-> "Group_members",
      side |-> 2, related_model |-> "merge_manager.Group"],
     [name |-> "twinned_by", kind |-> "many_to_many_reverse", through |-> "City_twinned",
      side |-> 2, related_model |-> "merge_manager.City"] >>

\* A field value that is a list (of a JSONField, say): the list ['x'].
ListValue == "<list ['x']>"

\* str(value)
Str(v) == IF v = NoneVal THEN "None" ELSE IF v = ListValue THEN "['x']" ELSE v

\* _serialize_value of a field value: a str and None are kept, anything
\* else becomes its str().
serialize_value(v) == IF v = ListValue THEN Str(v) ELSE v

\* _serialize_value of a bool: it is kept.
serialize_bool(v) == v

\* ------------------------------------------------------------ strategies

\* What a strategy call yields when it raises TypeError instead of returning.
UnhashableTypeError == "<TypeError: unhashable type: 'list'>"

\* _is_empty, `value in {None, ''}`: the set lookup hashes value, which
\* raises TypeError for a list.
is_empty_raises(value) == value = ListValue

\* _is_empty, for a value that can be hashed.
is_empty(value) == value \in {NoneVal, ""}

prefer_target(target_value, donor_value, context) ==
  IF is_empty_raises(target_value) THEN UnhashableTypeError
  ELSE IF is_empty(target_value) THEN donor_value ELSE target_value

prefer_donor(target_value, donor_value, context) == donor_value

prefer_non_null(target_value, donor_value, context) ==
  IF is_empty_raises(target_value) THEN UnhashableTypeError
  ELSE IF ~is_empty(target_value) THEN target_value ELSE donor_value

concat(target_value, donor_value, context) ==
  IF is_empty_raises(target_value) THEN UnhashableTypeError
  ELSE IF is_empty(target_value) THEN donor_value
  ELSE IF is_empty_raises(donor_value) THEN UnhashableTypeError
  ELSE IF is_empty(donor_value) THEN target_value
  ELSE LET separator == IF "separator" \in DOMAIN context
                        THEN context["separator"] ELSE " "
       IN Str(target_value) \o separator \o Str(donor_value)

\* ---------------------------------------------------------------- config

\* FieldMergeRule
FieldMergeRule(strategy) ==
  [strategy |-> strategy, allow_override |-> TRUE, metadata |-> EmptyDict]

\* FieldMergeRule(strategy=..., allow_override=False)
NoOverrideRule(strategy) == [FieldMergeRule(strategy) EXCEPT !.allow_override = FALSE]

\* FieldMergeRule.get_callable: a name of FIELD_STRATEGIES resolves, any
\* other string goes to import_string, which raises ImportError.
CanResolve(rule) == rule.strategy \in FIELD_STRATEGIES

\* FieldMergeRule.get_callable, when it does not return: import_string raises
\* ImportError for a string; StrategyNotFoundError is for a strategy that is
\* neither callable nor a string, such as None.
get_callable_raises(rule) ==
  IF rule.strategy = NoneVal THEN StrategyNotFoundError ELSE StrategyImportError

\* The callable get_callable returned, applied.
CallStrategy(rule, target_value, donor_value, context) ==
  CASE rule.strategy = "prefer_target" -> prefer_target(target_value, donor_value, context)
    [] rule.strategy = "prefer_donor" -> prefer_donor(target_value, donor_value, context)
    [] rule.strategy = "prefer_non_null" -> prefer_non_null(target_value, donor_value, context)
    [] rule.strategy = "concat" -> concat(target_value, donor_value, context)

\* MergeProfile
MergeProfile(label, fields, soft_delete_field, hard_delete, pre, post) ==
  [label |-> label, model |-> "City", fields |-> fields,
   soft_delete_field |-> soft_delete_field, soft_delete_value |-> NoneVal,
   hard_delete |-> hard_delete, pre_merge_hooks |-> pre, post_merge_hooks |-> post]

\* The field rules of the profiles: tests.py's, one with the other two
\* strategies and a rule that disallows overrides, one whose strategy name
\* does not resolve, and one whose strategy is None.
CityFields ==
  << [name |-> "name", rule |-> FieldMergeRule("prefer_target")],
     [name |-> "code", rule |-> FieldMergeRule("prefer_non_null")] >>
DonorFields ==
  << [name |-> "name", rule |-> NoOverrideRule("prefer_donor")],
     [name |-> "code", rule |-> FieldMergeRule("concat")] >>
BrokenFields ==
  << [name |-> "name", rule |-> FieldMergeRule("no.such.strategy")],
     [name |-> "code", rule |-> FieldMergeRule("prefer_donor")] >>
NoStrategyFields ==
  << [name |-> "name", rule |-> FieldMergeRule(NoneVal)],
     [name |-> "code", rule |-> FieldMergeRule("prefer_donor")] >>

\* The profiles a service may be bound to.
Profiles ==
  { MergeProfile("city", CityFields, NoneVal, FALSE, <<"pre1">>, <<"post1">>),
    MergeProfile("city-hard-delete", CityFields, NoneVal, TRUE,
                 <<"pre1", "pre2">>, <<"post1", "post2">>),
    MergeProfile("city-donor", DonorFields, "is_active", FALSE, <<>>, <<>>),
    MergeProfile("city-donor-hard", DonorFields, NoneVal, TRUE, <<>>, <<>>),
    MergeProfile("city-archived", CityFields, "archived", FALSE, <<>>, <<>>),
    MergeProfile("city-no-retire", CityFields, "", FALSE, <<>>, <<>>),
    MergeProfile("city-broken", BrokenFields, NoneVal, FALSE, <<>>, <<>>),
    MergeProfile("city-no-strategy", NoStrategyFields, NoneVal, FALSE, <<>>, <<>>) }

\* MergeProfile.get_soft_delete_field
get_soft_delete_field(p) ==
  IF p.soft_delete_field # NoneVal THEN p.soft_delete_field ELSE SOFT_DELETE_FIELD

\* MergeProfile.get_soft_delete_value
get_soft_delete_value(p) ==
  IF p.soft_delete_value # NoneVal THEN p.soft_delete_value ELSE SOFT_DELETE_VALUE

\* ----------------------------------------------------------------- state

VARIABLES
  profile,        \* MergeService.profile
  pair,           \* what the caller passes as target and donor
  audit_model,    \* settings.AUDIT_MODEL is configured
  db,             \* the committed store
  conn,           \* the store as the service's connection sees it
  in_atomic,      \* the connection is inside transaction.atomic()
  pc,             \* where the current merge() call stands
  calls,          \* merge() calls started so far
  target,         \* the target instance in memory
  donor,          \* the donor instance in memory
  dry_run,
  overrides,
  context,        \* base_context
  result,         \* the MergeResult
  exc,            \* the exception in flight, or NoExc
  hook_i,         \* hooks of the running hook loop already called
  rel_i,          \* relations _transfer_relations has been through
  relations_info, \* _transfer_relations' relations_info
  processed_through,
  raised,         \* the exception merge() raised to its caller, or NoExc
  pre,            \* history: the store when the call was made
  log,            \* history: the steps and store writes of the call, in order
  last,           \* history: the call before this one, if it returned
  call,           \* a call of a field strategy: its arguments and what it gave
  _profiles,      \* MergeProfileRegistry._profiles
  _model_index,   \* MergeProfileRegistry._model_index
  iterator,       \* the iterator the last all() returned
  outcome,        \* what the last call of a registry method returned or raised
  ops,            \* registry methods called so far
  view,           \* the API view: the request it serves and its response
  merges          \* two merge() calls running at once: where each stands

store == <<db, conn, in_atomic>>
locals == <<target, donor, dry_run, overrides, context, result, exc, hook_i,
            rel_i, relations_info, processed_through>>
service == <<profile, pair, audit_model, db, conn, in_atomic, pc, calls, target, donor,
             dry_run, overrides, context, result, exc, hook_i, rel_i,
             relations_info, processed_through, raised, pre, log, last>>
registry_vars == <<_profiles, _model_index, iterator, outcome, ops>>
vars == <<service, call, registry_vars, view, merges>>

\* The rows of tests.py's test_merge_moves_fields_and_relations, with one
\* tag shared by both cities, the Group memberships, a third city and the
\* twinnings.
Fixture ==
  [city |-> [c \in Cities |->
               IF c = "c1" THEN [name |-> "Target", code |-> "", is_active |-> TRUE]
               ELSE IF c = "c2" THEN [name |-> "Donor", code |-> "DN", is_active |-> TRUE]
               ELSE [name |-> "Third", code |-> "TH", is_active |-> TRUE]],
   links |-> [t \in {"City_tags", "City_twinned", "Group_members"} |->
               IF t = "City_tags"
               THEN {<<"c1", "tA">>, <<"c2", "tA">>, <<"c2", "tB">>}
               ELSE IF t = "City_twinned"
               THEN {<<"c1", "c2">>, <<"c3", "c1">>, <<"c3", "c2">>}
               ELSE {<<"g1", "c2">>, <<"g2", "c1">>}],
   office |-> [o \in {"o1", "o2"} |-> IF o = "o1" THEN "c2" ELSE "c1"],
   audit |-> <<>>]

\* The store without the audit table.
Data(s) == [city |-> s.city, links |-> s.links, office |-> s.office]

\* Model.objects.get(pk=pk)
Instance(s, pk) ==
  [cls |-> "City", pk |-> pk, name |-> s.city[pk].name, code |-> s.city[pk].code,
   is_active |-> s.city[pk].is_active]

\* An instance that is not of the profile's model class: object().
NotACity == [cls |-> "object", pk |-> NoneVal]

\* No audit row: MergeResult.audit_record = None.
NoRow == [id |-> 0]

\* MergeResult(profile, target, donor, dry_run)
MergeResult(dry) ==
  [dry_run |-> dry, changed_fields |-> EmptyDict, relations |-> EmptyDict,
   soft_delete |-> EmptyDict, hard_delete |-> EmptyDict,
   status |-> STATUS_COMPLETED, error |-> NoneVal, audit_record |-> NoRow]

\* No MergeResult exists (before the first call, and when validation fails).
NoResult == [status |-> NoneVal]

NoCall == [returned |-> FALSE]

\* What callers pass as target and donor: two cities, one city twice, or
\* something that is no City in the place of either.
Pairs ==
  {<<"c1", "c2">>, <<"c2", "c1">>, <<"c1", "c1">>, <<"c2", "c2">>,
   <<"object", "c2">>, <<"c1", "object">>}

\* The caller's Model.objects.get(pk=...) of both can succeed.
CanFetch(s, pr) == \A i \in 1..2 : pr[i] = "object" \/ pr[i] \in DOMAIN s.city

Fetch(s, pk) == IF pk = "object" THEN NotACity ELSE Instance(s, pk)

\* No strategy is being called.
NoStrategyCall ==
  [fn |-> NoneVal, target_value |-> NoneVal, donor_value |-> NoneVal,
   context |-> EmptyDict, returned |-> FALSE, value |-> NoneVal]

\* No all() was called.
NoIterator == [state |-> "none", at_call |-> <<>>, yielded |-> <<>>,
               di_used |-> 0, di_pos |-> 0, len |-> 0]

\* No registry method was called.
NoOutcome == [op |-> NoneVal, arg |-> NoneVal, exc |-> NoExc, value |-> NoneVal]

\* No request has reached the API views.
NoRequest ==
  [state |-> "idle", requests |-> 0,
   request |-> [target_id |-> NoneVal, donor_id |-> NoneVal, dry_run |-> NoneVal,
                field_overrides |-> EmptyDict],
   response |-> [success |-> FALSE, message |-> NoneVal],
   delete_failed |-> FALSE, audit_before |-> <<>>]

\* Two merge() calls running at once, neither started: for each its
\* position, its instances, the store as its transaction left it, the rows
\* the transaction wrote, the relation it is at, the pks it read, and
\* whether the other's transaction was open when its own began.
NoMerges ==
  [i \in 1..2 |->
     [pc |-> "idle", target |-> NotACity, donor |-> NotACity, conn |-> Fixture,
      written |-> {}, result |-> NoResult, rel_i |-> 0, pks |-> {},
      relations_info |-> EmptyDict, processed_through |-> {}, overlapped |-> FALSE]]

\* MergeProfileRegistry.__init__, and no method called yet.
RegistryCreated ==
  /\ _profiles = <<>>
  /\ _model_index = EmptyDict
  /\ iterator = NoIterator
  /\ outcome = NoOutcome
  /\ ops = 0

\* A MergeService instance on which merge() was not called yet.
ServiceCreated ==
  /\ db = Fixture
  /\ conn = Fixture
  /\ in_atomic = FALSE
  /\ pc = "idle"
  /\ calls = 0
  /\ target = NotACity
  /\ donor = NotACity
  /\ dry_run = FALSE
  /\ overrides = EmptyDict
  /\ context = EmptyDict
  /\ result = NoResult
  /\ exc = NoExc
  /\ hook_i = 0
  /\ rel_i = 0
  /\ relations_info = EmptyDict
  /\ processed_through = {}
  /\ raised = NoExc
  /\ pre = Data(Fixture)
  /\ log = <<>>
  /\ last = NoCall

Init ==
  /\ profile \in Profiles
  /\ pair \in Pairs
  /\ audit_model \in BOOLEAN
  /\ ServiceCreated
  /\ call = NoStrategyCall
  /\ RegistryCreated
  /\ view = NoRequest
  /\ merges = NoMerges

\* ------------------------------------------------------ the merge service

\* Mutant of validate_instances: the donor is not checked.
validate_target_only(p, tgt, dnr) ==
  IF tgt.cls # p.model
  THEN MergeValidationError("Target instance must be City, got " \o tgt.cls)
  ELSE NoExc

\* MergeService._validate_instances: the exception it raises, or NoExc.
validate_instances(p, tgt, dnr) ==
  IF tgt.cls # p.model
  THEN MergeValidationError("Target instance must be City, got " \o tgt.cls)
  ELSE IF dnr.cls # p.model
  THEN MergeValidationError("Donor instance must be City, got " \o dnr.cls)
  ELSE NoExc

\* merge(): base_context = dict(context); update with profile and dry_run.
base_context(ctx, p, dry) ==
  [k \in DOMAIN ctx \cup {"profile", "dry_run"} |->
     IF k = "profile" THEN p ELSE IF k = "dry_run" THEN dry ELSE ctx[k]]

\* Mutant of strategy_context: the rule's metadata is flattened in with
\* update, not setdefault.
strategy_context_update(ctx, field_name, rule) ==
  [k \in DOMAIN ctx \cup {"field", "rule"} \cup DOMAIN rule.metadata
        \cup (IF rule.metadata # EmptyDict THEN {"metadata"} ELSE {}) |->
     IF k \in DOMAIN rule.metadata THEN rule.metadata[k]
     ELSE IF k = "metadata" THEN rule.metadata
     ELSE IF k = "field" THEN field_name
     ELSE IF k = "rule" THEN rule ELSE ctx[k]]

\* _apply_field_updates: the strategy_context of one field.
strategy_context(ctx, field_name, rule) ==
  LET own == [k \in DOMAIN ctx \cup {"field", "rule"} |->
                IF k = "field" THEN field_name
                ELSE IF k = "rule" THEN rule ELSE ctx[k]]
      meta == IF rule.metadata # EmptyDict
              THEN [k \in DOMAIN own \cup {"metadata"} |->
                      IF k = "metadata" THEN rule.metadata ELSE own[k]]
              ELSE own
  IN [k \in DOMAIN meta \cup DOMAIN rule.metadata |->
        IF k \in DOMAIN meta THEN meta[k] ELSE rule.metadata[k]]

\* Mutant of field_update: an override is dropped when the rule disallows it.
field_update_checks_allow_override(acc, field_name, rule, dnr, ov, dry, ctx) ==
  LET target_value == acc.target[field_name]
      overridden == field_name \in DOMAIN ov /\ rule.allow_override
      new_value == IF overridden THEN ov[field_name]
                   ELSE CallStrategy(rule, target_value, dnr[field_name],
                                     strategy_context(ctx, field_name, rule))
  IN IF ~overridden /\ ~CanResolve(rule)
     THEN [acc EXCEPT !.exc = get_callable_raises(rule)]
     ELSE IF new_value # target_value
     THEN [exc |-> acc.exc,
           changes |-> [f \in DOMAIN acc.changes \cup {field_name} |->
                          IF f = field_name
                          THEN [from |-> target_value, to |-> new_value,
                                source |-> IF overridden THEN "override" ELSE "strategy",
                                donor |-> dnr[field_name]]
                          ELSE acc.changes[f]],
           update_fields |-> IF dry THEN acc.update_fields
                             ELSE Append(acc.update_fields, field_name),
           target |-> IF dry THEN acc.target
                      ELSE [acc.target EXCEPT ![field_name] = new_value]]
     ELSE acc

\* Mutant of field_update: a change is recorded for every field.
field_update_records_all(acc, field_name, rule, dnr, ov, dry, ctx) ==
  LET target_value == acc.target[field_name]
      overridden == field_name \in DOMAIN ov
      new_value == IF overridden THEN ov[field_name]
                   ELSE CallStrategy(rule, target_value, dnr[field_name],
                                     strategy_context(ctx, field_name, rule))
  IN IF ~overridden /\ ~CanResolve(rule)
     THEN [acc EXCEPT !.exc = get_callable_raises(rule)]
     ELSE [exc |-> acc.exc,
           changes |-> [f \in DOMAIN acc.changes \cup {field_name} |->
                          IF f = field_name
                          THEN [from |-> target_value, to |-> new_value,
                                source |-> IF overridden THEN "override" ELSE "strategy",
                                donor |-> dnr[field_name]]
                          ELSE acc.changes[f]],
           update_fields |-> IF dry THEN acc.update_fields
                             ELSE Append(acc.update_fields, field_name),
           target |-> IF dry THEN acc.target
                      ELSE [acc.target EXCEPT ![field_name] = new_value]]

\* Mutant of field_update: a dry run records no change.
field_update_silent_dry(acc, field_name, rule, dnr, ov, dry, ctx) ==
  LET target_value == acc.target[field_name]
      overridden == field_name \in DOMAIN ov
      new_value == IF overridden THEN ov[field_name]
                   ELSE CallStrategy(rule, target_value, dnr[field_name],
                                     strategy_context(ctx, field_name, rule))
  IN IF ~overridden /\ ~CanResolve(rule)
     THEN [acc EXCEPT !.exc = get_callable_raises(rule)]
     ELSE IF new_value # target_value /\ ~dry
     THEN [exc |-> acc.exc,
           changes |-> [f \in DOMAIN acc.changes \cup {field_name} |->
                          IF f = field_name
                          THEN [from |-> target_value, to |-> new_value,
                                source |-> IF overridden THEN "override" ELSE "strategy",
                                donor |-> dnr[field_name]]
                          ELSE acc.changes[f]],
           update_fields |-> Append(acc.update_fields, field_name),
           target |-> [acc.target EXCEPT ![field_name] = new_value]]
     ELSE acc

\* _apply_field_updates: one round of the loop over profile.fields.
\* acc is [exc, changes, update_fields, target].
field_update(acc, field_name, rule, dnr, ov, dry, ctx) ==
  LET target_value == acc.target[field_name]
      donor_value == dnr[field_name]
      overridden == field_name \in DOMAIN ov
      new_value == IF overridden THEN ov[field_name]
                   ELSE CallStrategy(rule, target_value, donor_value,
                                     strategy_context(ctx, field_name, rule))
      source == IF overridden THEN "override" ELSE "strategy"
      change == [from |-> serialize_value(target_value),
                 to |-> serialize_value(new_value),
                 source |-> source,
                 donor |-> serialize_value(donor_value)]
  IN IF ~overridden /\ ~CanResolve(rule)
     THEN [acc EXCEPT !.exc = get_callable_raises(rule)]
     ELSE IF ~overridden /\ new_value = UnhashableTypeError
     THEN [acc EXCEPT !.exc = Exc("TypeError", "unhashable type: 'list'")]
     ELSE IF new_value # target_value
     THEN [exc |-> acc.exc,
           changes |-> [f \in DOMAIN acc.changes \cup {field_name} |->
                          IF f = field_name THEN change ELSE acc.changes[f]],
           update_fields |-> IF dry THEN acc.update_fields
                             ELSE Append(acc.update_fields, field_name),
           target |-> IF dry THEN acc.target
                      ELSE [acc.target EXCEPT ![field_name] = new_value]]
     ELSE acc

RECURSIVE field_loop(_, _, _, _, _, _, _)
field_loop(i, acc, fields, dnr, ov, dry, ctx) ==
  IF i > Len(fields) \/ acc.exc # NoExc THEN acc
  ELSE field_loop(i + 1,
                  field_update(acc, fields[i].name, fields[i].rule, dnr, ov, dry, ctx),
                  fields, dnr, ov, dry, ctx)

\* target.save(update_fields=update_fields)
save_fields(s, obj, update_fields) ==
  [s EXCEPT !.city[obj.pk] =
     [f \in DOMAIN @ |->
        IF \E i \in 1..Len(update_fields) : update_fields[i] = f THEN obj[f] ELSE @[f]]]

\* MergeService._apply_field_updates, up to its save:
\* [exc, changes, update_fields, target].
apply_field_updates(p, tgt, dnr, ov, dry, ctx) ==
  field_loop(1, [exc |-> NoExc, changes |-> EmptyDict, update_fields |-> <<>>,
                 target |-> tgt],
             p.fields, dnr, ov, dry, ctx)

\* The through row of a many-to-many relation linking City pk to remote r.
through_row(rel, pk, r) == IF rel.side = 1 THEN <<pk, r>> ELSE <<r, pk>>

\* manager.values_list('pk', flat=True): the remote pks linked to City pk.
related_pks(s, rel, pk) ==
  {row[3 - rel.side] : row \in {x \in s.links[rel.through] : x[rel.side] = pk}}

\* target_manager.add(*related_pks)
m2m_add(s, rel, pk, pks) ==
  [s EXCEPT !.links[rel.through] = @ \cup {through_row(rel, pk, r) : r \in pks}]

\* manager.remove(*related_pks)
m2m_remove(s, rel, pk, pks) ==
  [s EXCEPT !.links[rel.through] = @ \ {through_row(rel, pk, r) : r \in pks}]

\* manager.all() of a reverse foreign key: the offices of City pk.
fk_queryset(s, pk) == {o \in DOMAIN s.office : s.office[o] = pk}

\* queryset.update(city=target)
fk_update(s, from_pk, to_pk) ==
  [s EXCEPT !.office = [o \in DOMAIN @ |-> IF @[o] = from_pk THEN to_pk ELSE @[o]]]

\* Mutant of skipped: no relation is skipped.
skipped_never(rel, processed) == FALSE

\* _transfer_relations: a reverse many-to-many whose through table a forward
\* field already handled is skipped.
skipped(rel, processed) ==
  rel.kind = "many_to_many_reverse" /\ rel.through \in processed

\* _transfer_relations: the entry of relations_info for one relation.
relation_count(s, rel, dnr) ==
  IF rel.kind = "one_to_many" THEN Cardinality(fk_queryset(s, dnr.pk))
  ELSE Cardinality(related_pks(s, rel, dnr.pk))

relation_info(s, rel, dnr) ==
  [type |-> rel.kind, count |-> relation_count(s, rel, dnr),
   related_model |-> rel.related_model]

\* Mutant of moves: a dry run moves the links too.
moves_in_dry_run(s, rel, dnr, dry) == relation_count(s, rel, dnr) > 0

\* _transfer_relations: whether the relation's links are moved.
moves(s, rel, dnr, dry) == ~dry /\ relation_count(s, rel, dnr) > 0

\* _transfer_relations: the store after the relation's links were moved.
transfer(s, rel, tgt, dnr) ==
  IF rel.kind = "one_to_many" THEN fk_update(s, dnr.pk, tgt.pk)
  ELSE m2m_remove(m2m_add(s, rel, tgt.pk, related_pks(s, rel, dnr.pk)),
                  rel, dnr.pk, related_pks(s, rel, dnr.pk))

\* _transfer_relations: the store when a write of the transfer raised: none
\* of a bulk update, none or the first of the add and the remove.
transfer_cut(s, rel, tgt, dnr, added) ==
  IF rel.kind # "one_to_many" /\ added
  THEN m2m_add(s, rel, tgt.pk, related_pks(s, rel, dnr.pk))
  ELSE s

\* The store writes of a transfer, as logged.
transfer_ops(rel) ==
  IF rel.kind = "one_to_many" THEN <<"update:" \o rel.name>>
  ELSE <<"add:" \o rel.name, "remove:" \o rel.name>>

\* The store writes of a transfer up to and with the one that raised.
transfer_cut_ops(rel, added) ==
  IF rel.kind # "one_to_many" /\ added THEN transfer_ops(rel)
  ELSE <<Head(transfer_ops(rel))>>

\* Mutant of soft_delete_info: a field the model lacks counts as disabled.
soft_delete_info_missing_disabled(p, dnr, dry) ==
  LET field_name == get_soft_delete_field(p)
  IN IF field_name \in {NoneVal, ""} \/ field_name \notin CityAttrs
     THEN [applied |-> FALSE, reason |-> "soft_delete_disabled"]
     ELSE [applied |-> TRUE, field |-> field_name,
           from |-> serialize_bool(dnr[field_name]),
           to |-> serialize_bool(get_soft_delete_value(p)),
           dry_run |-> dry]

\* Mutant of soft_delete_info: only a field name of None disables.
soft_delete_info_none_only(p, dnr, dry) ==
  LET field_name == get_soft_delete_field(p)
  IN IF field_name = NoneVal
     THEN [applied |-> FALSE, reason |-> "soft_delete_disabled"]
     ELSE IF field_name \notin CityAttrs
     THEN [applied |-> FALSE, reason |-> "field_missing", field |-> field_name]
     ELSE [applied |-> TRUE, field |-> field_name,
           from |-> serialize_bool(dnr[field_name]),
           to |-> serialize_bool(get_soft_delete_value(p)),
           dry_run |-> dry]

\* _apply_soft_delete: what it returns.
soft_delete_info(p, dnr, dry) ==
  LET field_name == get_soft_delete_field(p)
  IN IF field_name \in {NoneVal, ""}
     THEN [applied |-> FALSE, reason |-> "soft_delete_disabled"]
     ELSE IF field_name \notin CityAttrs
     THEN [applied |-> FALSE, reason |-> "field_missing", field |-> field_name]
     ELSE [applied |-> TRUE, field |-> field_name,
           from |-> serialize_bool(dnr[field_name]),
           to |-> serialize_bool(get_soft_delete_value(p)),
           dry_run |-> dry]

\* Mutant of soft_delete_writes: a dry run writes the donor too.
soft_delete_writes_in_dry_run(p, dnr, dry) == soft_delete_info(p, dnr, dry).applied

\* _apply_soft_delete: whether it goes on to write the donor.
soft_delete_writes(p, dnr, dry) == soft_delete_info(p, dnr, dry).applied /\ ~dry

\* Mutant of soft_deleted: the donor keeps its value.
soft_deleted_not_set(p, dnr) == dnr

\* setattr(donor, field_name, new_value)
soft_deleted(p, dnr) ==
  [dnr EXCEPT ![get_soft_delete_field(p)] = get_soft_delete_value(p)]

\* donor.delete(): the row, its through rows and, by on_delete=CASCADE, the
\* offices of the city go.
delete_city(s, pk) ==
  [s EXCEPT !.city = [c \in DOMAIN @ \ {pk} |-> @[c]],
            !.links = [t \in DOMAIN @ |->
                         {row \in @[t] : row[1] # pk /\ row[2] # pk}],
            !.office = [o \in {x \in DOMAIN @ : @[x] # pk} |-> @[o]]]

\* Mutant of hard_deletes: a dry run deletes the donor too.
hard_deletes_in_dry_run(p, dry) == p.hard_delete

\* _execute: whether the donor is deleted.
hard_deletes(p, dry) == p.hard_delete /\ ~dry

\* Mutant of hard_delete_info: the pk is read after donor.delete().
hard_delete_info_late_pk(p, dnr, dry) ==
  IF p.hard_delete
  THEN IF ~dry
       THEN [enabled |-> TRUE, applied |-> TRUE, dry_run |-> dry, pk |-> Str(NoneVal)]
       ELSE [enabled |-> TRUE, applied |-> FALSE, dry_run |-> dry]
  ELSE [enabled |-> FALSE, applied |-> FALSE, dry_run |-> dry]

\* _execute: result.hard_delete.
hard_delete_info(p, dnr, dry) ==
  IF p.hard_delete
  THEN IF ~dry
       THEN [enabled |-> TRUE, applied |-> TRUE, dry_run |-> dry, pk |-> Str(dnr.pk)]
       ELSE [enabled |-> TRUE, applied |-> FALSE, dry_run |-> dry]
  ELSE [enabled |-> FALSE, applied |-> FALSE, dry_run |-> dry]

\* Mutant of audit_row: the row says completed whatever the result.
audit_row_always_completed(s, p, res, tgt, dnr) ==
  [id |-> Len(s.audit) + 1,
   profile |-> p.label,
   target_object_id |-> Str(tgt.pk),
   donor_object_id |-> Str(dnr.pk),
   status |-> STATUS_COMPLETED,
   dry_run |-> res.dry_run,
   summary |-> [fields |-> res.changed_fields, relations |-> res.relations,
                soft_delete |-> res.soft_delete, hard_delete |-> res.hard_delete],
   message |-> IF res.error # NoneVal THEN res.error ELSE ""]

\* _write_audit: the row it creates.
audit_row(s, p, res, tgt, dnr) ==
  [id |-> Len(s.audit) + 1,
   profile |-> p.label,
   target_object_id |-> Str(tgt.pk),
   donor_object_id |-> Str(dnr.pk),
   status |-> res.status,
   dry_run |-> res.dry_run,
   summary |-> [fields |-> res.changed_fields, relations |-> res.relations,
                soft_delete |-> res.soft_delete, hard_delete |-> res.hard_delete],
   message |-> IF res.error # NoneVal THEN res.error ELSE ""]

\* audit_model.objects.create(**audit_kwargs)
audit_create(s, row) == [s EXCEPT !.audit = Append(@, row)]

\* The place of a deleted audit row: its id is not given again.
DeletedRow(id) == [id |-> id, status |-> "<deleted>"]

\* audit_record.delete()
audit_delete(s, row) == [s EXCEPT !.audit[row.id] = DeletedRow(row.id)]

\* Mutant of atomic_exit: the transaction commits whatever left the block.
atomic_exit_commits(committed, working, failed) == working

\* transaction.atomic().__exit__: what the store holds afterwards.
atomic_exit(committed, working, failed) == IF failed THEN committed ELSE working

\* ---------------------------------------------------------------- actions

\* Arguments callers pass.
OverrideArgs == {EmptyDict, [name |-> "Merged City", is_active |-> FALSE]}
ContextArgs == {EmptyDict}

\* Mutant of Raise: the except branch runs inside the with block.
Raise_inside_atomic(e) ==
  /\ exc' = e
  /\ pc' = "except"

\* An exception leaves _execute: through atomic's __exit__ when inside it.
Raise(e) ==
  /\ exc' = e
  /\ pc' = IF in_atomic THEN "atomic_exit" ELSE "except"

\* Control leaves a step of _execute normally.
Goto(next) == pc' = next /\ exc' = exc

\* Mutant of Write: a write inside transaction.atomic() is committed at once.
Write_autocommit(s) ==
  /\ conn' = s
  /\ db' = s
  /\ in_atomic' = in_atomic

\* The store is written: under autocommit the write is committed at once.
Write(s) ==
  /\ conn' = s
  /\ db' = (IF in_atomic THEN db ELSE s)
  /\ in_atomic' = in_atomic

Logged(events) == log' = log \o events

\* Mutant of AfterRetire: the post-merge hooks come after the deletion.
AfterRetire_deletes_first(p) == "hard_delete"

\* Mutant of AfterPreHooks: the pre-merge hooks are not called.
AfterPreHooks_no_hooks(p) == "fields"

AfterPreHooks(p) == IF Len(p.pre_merge_hooks) > 0 THEN "pre_hooks" ELSE "fields"
AfterRetire(p) == IF Len(p.post_merge_hooks) > 0 THEN "post_hooks" ELSE "hard_delete"

\* What a call that returned leaves for the next one to be compared with.
Returned ==
  [returned |-> TRUE, dry_run |-> dry_run, overrides |-> overrides,
   context |-> context, pre |-> pre, changed_fields |-> result.changed_fields,
   relations |-> result.relations, soft_delete |-> result.soft_delete]

\* merge(), lines 58-73: a caller holding instance t and instance d calls
\* it; the arguments are normalised, the instances validated and the
\* MergeResult created.
Merge(t, d, dry, ov, ctx) ==
  /\ pc \in {"idle", "returned", "raised"}
  /\ calls < MaxCalls
  /\ calls' = calls + 1
  /\ target' = t
  /\ donor' = d
  /\ dry_run' = dry
  /\ overrides' = ov
  /\ context' = base_context(ctx, profile, dry)
  /\ hook_i' = 0
  /\ rel_i' = 0
  /\ relations_info' = EmptyDict
  /\ processed_through' = {}
  /\ exc' = NoExc
  /\ pre' = Data(db)
  /\ log' = <<>>
  /\ last' = IF pc = "returned" THEN Returned ELSE NoCall
  /\ LET invalid == validate_instances(profile, t, d)
     IN IF invalid # NoExc
        THEN /\ raised' = invalid
             /\ result' = NoResult
             /\ pc' = "raised"
        ELSE /\ raised' = NoExc
             /\ result' = MergeResult(dry)
             /\ pc' = IF dry THEN AfterPreHooks(profile) ELSE "atomic"
  /\ UNCHANGED <<call, merges, registry_vars, profile, pair, audit_model, store>>

\* with transaction.atomic():
AtomicEnter ==
  /\ pc = "atomic"
  /\ in_atomic' = TRUE
  /\ Logged(<<"atomic">>)
  /\ Goto(AfterPreHooks(profile))
  /\ UNCHANGED <<call, merges, registry_vars, view, profile, pair, audit_model, db, conn, calls, target, donor, dry_run,
                 overrides, context, result, hook_i, rel_i, relations_info,
                 processed_through, raised, pre, last>>

\* _execute, lines 99-100: one pre-merge hook is called; it returns or raises.
PreHook ==
  /\ pc = "pre_hooks"
  /\ LET name == profile.pre_merge_hooks[hook_i + 1]
     IN /\ Logged(<<"hook:" \o name>>)
        /\ \/ /\ hook_i' = IF hook_i + 1 = Len(profile.pre_merge_hooks) THEN 0
                           ELSE hook_i + 1
              /\ Goto(IF hook_i + 1 = Len(profile.pre_merge_hooks)
                      THEN "fields" ELSE "pre_hooks")
           \/ /\ hook_i' = hook_i
              /\ Raise(HookError(name))
  /\ UNCHANGED <<call, merges, registry_vars, view, profile, pair, audit_model, store, calls, target, donor, dry_run,
                 overrides, context, result, rel_i, relations_info,
                 processed_through, raised, pre, last>>

\* _execute, lines 102-108: _apply_field_updates.
ApplyFieldUpdates ==
  /\ pc = "fields"
  /\ LET r == apply_field_updates(profile, target, donor, overrides, dry_run, context)
     IN /\ target' = r.target
        /\ \/ /\ r.exc # NoExc
              /\ Raise(r.exc)
              /\ Logged(<<"fields">>)
              /\ UNCHANGED <<store, result>>
           \/ /\ r.exc = NoExc
              /\ r.update_fields = <<>>
              /\ result' = [result EXCEPT !.changed_fields = r.changes]
              /\ Goto("relations")
              /\ Logged(<<"fields">>)
              /\ UNCHANGED store
           \/ /\ r.exc = NoExc
              /\ r.update_fields # <<>>
              /\ Write(save_fields(conn, r.target, r.update_fields))
              /\ result' = [result EXCEPT !.changed_fields = r.changes]
              /\ Goto("relations")
              /\ Logged(<<"fields", "save:target">>)
           \/ /\ r.exc = NoExc
              /\ r.update_fields # <<>>
              /\ Raise(DatabaseError)
              /\ Logged(<<"fields", "save:target">>)
              /\ UNCHANGED <<store, result>>
  /\ UNCHANGED <<call, merges, registry_vars, view, profile, pair, audit_model, calls, donor, dry_run, overrides, context,
                 hook_i, rel_i, relations_info, processed_through, raised, pre, last>>

\* _execute, line 109: _transfer_relations, one relation of its two loops
\* at a time; with the last one it returns and result.relations is set.
TransferRelations ==
  /\ pc = "relations"
  /\ LET rel == Relations[rel_i + 1]
         info == [n \in DOMAIN relations_info \cup {rel.name} |->
                    IF n = rel.name THEN relation_info(conn, rel, donor)
                    ELSE relations_info[n]]
         done(inf) ==
           /\ rel_i' = IF rel_i + 1 = Len(Relations) THEN 0 ELSE rel_i + 1
           /\ relations_info' = inf
           /\ result' = IF rel_i + 1 = Len(Relations)
                        THEN [result EXCEPT !.relations = inf] ELSE result
           /\ Goto(IF rel_i + 1 = Len(Relations) THEN "retire" ELSE "relations")
     IN \/ /\ skipped(rel, processed_through)
           /\ done(relations_info)
           /\ Logged(<<"relation:" \o rel.name>>)
           /\ UNCHANGED <<store, processed_through>>
        \/ /\ ~skipped(rel, processed_through)
           /\ ~moves(conn, rel, donor, dry_run)
           /\ done(info)
           /\ processed_through' =
                IF rel.kind = "one_to_many" THEN processed_through
                ELSE processed_through \cup {rel.through}
           /\ Logged(<<"relation:" \o rel.name>>)
           /\ UNCHANGED store
        \/ /\ ~skipped(rel, processed_through)
           /\ moves(conn, rel, donor, dry_run)
           /\ Write(transfer(conn, rel, target, donor))
           /\ done(info)
           /\ processed_through' =
                IF rel.kind = "one_to_many" THEN processed_through
                ELSE processed_through \cup {rel.through}
           /\ Logged(<<"relation:" \o rel.name>> \o transfer_ops(rel))
        \/ /\ ~skipped(rel, processed_through)
           /\ moves(conn, rel, donor, dry_run)
           /\ \E added \in BOOLEAN :
                /\ Write(transfer_cut(conn, rel, target, donor, added))
                /\ Logged(<<"relation:" \o rel.name>> \o transfer_cut_ops(rel, added))
           /\ relations_info' = info
           /\ Raise(DatabaseError)
           /\ UNCHANGED <<rel_i, result, processed_through>>
  /\ UNCHANGED <<call, merges, registry_vars, view, profile, pair, audit_model, calls, target, donor, dry_run, overrides,
                 context, hook_i, raised, pre, last>>

\* _execute, lines 110-118: the donor is retired, by _apply_soft_delete
\* unless the profile deletes it.
RetireDonor ==
  /\ pc = "retire"
  /\ Logged(IF ~profile.hard_delete /\ soft_delete_writes(profile, donor, dry_run)
            THEN <<"retire", "save:donor">> ELSE <<"retire">>)
  /\ \/ /\ profile.hard_delete
        /\ result' = [result EXCEPT !.soft_delete =
                        [applied |-> FALSE, reason |-> "hard_delete_enabled",
                         dry_run |-> result.dry_run]]
        /\ Goto(AfterRetire(profile))
        /\ UNCHANGED <<store, donor>>
     \/ /\ ~profile.hard_delete
        /\ ~soft_delete_writes(profile, donor, dry_run)
        /\ result' = [result EXCEPT !.soft_delete =
                        soft_delete_info(profile, donor, dry_run)]
        /\ Goto(AfterRetire(profile))
        /\ UNCHANGED <<store, donor>>
     \/ /\ ~profile.hard_delete
        /\ soft_delete_writes(profile, donor, dry_run)
        /\ donor' = soft_deleted(profile, donor)
        /\ Write(save_fields(conn, donor', <<get_soft_delete_field(profile)>>))
        /\ result' = [result EXCEPT !.soft_delete =
                        soft_delete_info(profile, donor, dry_run)]
        /\ Goto(AfterRetire(profile))
     \/ /\ ~profile.hard_delete
        /\ soft_delete_writes(profile, donor, dry_run)
        /\ donor' = soft_deleted(profile, donor)
        /\ Raise(DatabaseError)
        /\ UNCHANGED <<store, result>>
  /\ UNCHANGED <<call, merges, registry_vars, view, profile, pair, audit_model, calls, target, dry_run, overrides, context,
                 hook_i, rel_i, relations_info, processed_through, raised, pre, last>>

\* _execute, lines 120-121: one post-merge hook is called; it returns or raises.
PostHook ==
  /\ pc = "post_hooks"
  /\ LET name == profile.post_merge_hooks[hook_i + 1]
     IN /\ Logged(<<"hook:" \o name>>)
        /\ \/ /\ hook_i' = IF hook_i + 1 = Len(profile.post_merge_hooks) THEN 0
                           ELSE hook_i + 1
              /\ Goto(IF hook_i + 1 = Len(profile.post_merge_hooks)
                      THEN "hard_delete" ELSE "post_hooks")
           \/ /\ hook_i' = hook_i
              /\ Raise(HookError(name))
  /\ UNCHANGED <<call, merges, registry_vars, view, profile, pair, audit_model, store, calls, target, donor, dry_run,
                 overrides, context, result, rel_i, relations_info,
                 processed_through, raised, pre, last>>

\* _execute, lines 123-141: result.hard_delete is set and, if the profile
\* says so and this is no dry run, the donor is deleted.  _execute returns.
HardDelete ==
  /\ pc = "hard_delete"
  /\ \/ /\ ~hard_deletes(profile, dry_run)
        /\ result' = [result EXCEPT !.hard_delete =
                        hard_delete_info(profile, donor, dry_run)]
        /\ Goto(IF in_atomic THEN "atomic_exit" ELSE "else")
        /\ Logged(<<"hard_delete">>)
        /\ UNCHANGED <<store, donor>>
     \/ /\ hard_deletes(profile, dry_run)
        /\ Write(delete_city(conn, donor.pk))
        /\ donor' = [donor EXCEPT !.pk = NoneVal]
        /\ result' = [result EXCEPT !.hard_delete =
                        hard_delete_info(profile, donor, dry_run)]
        /\ Goto(IF in_atomic THEN "atomic_exit" ELSE "else")
        /\ Logged(<<"hard_delete", "delete:donor">>)
     \/ /\ hard_deletes(profile, dry_run)
        /\ result' = [result EXCEPT !.hard_delete =
                        [enabled |-> TRUE, applied |-> FALSE, dry_run |-> dry_run]]
        /\ Raise(DatabaseError)
        /\ Logged(<<"hard_delete", "delete:donor">>)
        /\ UNCHANGED <<store, donor>>
  /\ UNCHANGED <<call, merges, registry_vars, view, profile, pair, audit_model, calls, target, dry_run, overrides, context,
                 hook_i, rel_i, relations_info, processed_through, raised, pre, last>>

\* The with block of merge() is left: the transaction commits, or rolls
\* back when an exception leaves the block.
AtomicExit ==
  /\ pc = "atomic_exit"
  /\ db' = atomic_exit(db, conn, exc # NoExc)
  /\ conn' = db'
  /\ in_atomic' = FALSE
  /\ Logged(<<IF exc # NoExc THEN "rollback" ELSE "commit">>)
  /\ Goto(IF exc # NoExc THEN "except" ELSE "else")
  /\ UNCHANGED <<call, merges, registry_vars, view, profile, pair, audit_model, calls, target, donor, dry_run, overrides,
                 context, result, hook_i, rel_i, relations_info, processed_through,
                 raised, pre, last>>

\* _write_audit, called by both branches of merge() with the final status:
\* nothing without an audit model, else the row is created, or the create
\* raises.
WriteAudit(res, on_return, on_raise) ==
  \/ /\ ~audit_model
     /\ result' = res
     /\ on_return
     /\ UNCHANGED <<store, log>>
  \/ /\ audit_model
     /\ Write(audit_create(conn, audit_row(conn, profile, res, target, donor)))
     /\ result' = [res EXCEPT !.audit_record =
                     audit_row(conn, profile, res, target, donor)]
     /\ on_return
     /\ Logged(<<"create:audit">>)
  \/ /\ audit_model
     /\ result' = res
     /\ on_raise
     /\ Logged(<<"create:audit">>)
     /\ UNCHANGED store

\* merge(), lines 81-85: the except branch.
Except ==
  /\ pc = "except"
  /\ WriteAudit([result EXCEPT !.status = STATUS_FAILED, !.error = exc.msg],
                raised' = exc, raised' = AuditError)
  /\ pc' = "raised"
  /\ UNCHANGED <<call, merges, registry_vars, view, profile, pair, audit_model, calls, target, donor, dry_run, overrides,
                 context, exc, hook_i, rel_i, relations_info, processed_through,
                 pre, last>>

\* merge(), lines 86-89: the else branch.
Else ==
  /\ pc = "else"
  /\ WriteAudit([result EXCEPT !.status =
                   IF dry_run THEN STATUS_DRY_RUN ELSE STATUS_COMPLETED],
                raised' = NoExc /\ pc' = "returned",
                raised' = AuditError /\ pc' = "raised")
  /\ UNCHANGED <<call, merges, registry_vars, view, profile, pair, audit_model, calls, target, donor, dry_run, overrides,
                 context, exc, hook_i, rel_i, relations_info, processed_through,
                 pre, last>>

Next ==
  \/ \E dry \in BOOLEAN, ov \in OverrideArgs, ctx \in ContextArgs :
       /\ CanFetch(db, pair)
       /\ Merge(Fetch(db, pair[1]), Fetch(db, pair[2]), dry, ov, ctx)
       /\ UNCHANGED view
  \/ AtomicEnter
  \/ PreHook
  \/ ApplyFieldUpdates
  \/ TransferRelations
  \/ RetireDonor
  \/ PostHook
  \/ HardDelete
  \/ AtomicExit
  \/ Except
  \/ Else

Spec == Init /\ [][Next]_vars

\* ------------------------------------------------------ the preview view

\* What a preview request carries: the ids of target and donor (of a city,
\* of no city, or none), a dry_run entry the view never reads, and the field
\* overrides.  Its profile id is one that resolves to the service's profile.
PreviewRequests ==
  [target_id : {"c1", "c2", "c9", ""}, donor_id : {"c1", "c2"},
   dry_run : {NoneVal, "false"}, field_overrides : OverrideArgs]

\* _error_response, _success_response: the envelope.  The messages are the
\* source's, in English.
error_response(message) == [success |-> FALSE, message |-> message]
success_response(message) == [success |-> TRUE, message |-> message]

\* _parse_pk gives _MISSING.
pk_missing(id) == id \in {NoneVal, ""}

\* MergePreviewAPIView.post, lines 555-594: the request is parsed, target
\* and donor are fetched and merge() is called with dry_run=True; or the
\* request is turned down before that.
PreviewPost(req) ==
  /\ view.state \in {"idle", "responded"}
  /\ view.requests < MaxRequests
  /\ pc \in {"idle", "returned", "raised"}
  /\ LET received == [view EXCEPT !.requests = @ + 1, !.request = req,
                                  !.delete_failed = FALSE, !.audit_before = db.audit]
         rejected(message) ==
           /\ view' = [received EXCEPT !.state = "responded",
                                       !.response = error_response(message)]
           /\ UNCHANGED <<service, call, merges, registry_vars>>
     IN IF pk_missing(req.target_id) \/ pk_missing(req.donor_id)
        THEN rejected("preview needs a target and a donor")
        ELSE IF Str(req.target_id) = Str(req.donor_id)
        THEN rejected("target and donor cannot be the same")
        ELSE IF req.target_id \notin DOMAIN db.city \/ req.donor_id \notin DOMAIN db.city
        THEN rejected("the objects were not found for the profile")
        ELSE /\ Merge(Instance(db, req.target_id), Instance(db, req.donor_id), TRUE,
                      req.field_overrides, EmptyDict)
             /\ view' = [received EXCEPT !.state = "merging"]

\* MergePreviewAPIView.post, lines 595-609: merge() raised and the view
\* answers with an error; or it returned, the view deletes the audit record
\* of the result, going on if the delete raises, and answers with the payload.
PreviewRespond ==
  /\ view.state = "merging"
  /\ pc \in {"returned", "raised"}
  /\ \/ /\ pc = "raised"
        /\ view' = [view EXCEPT !.state = "responded",
                                !.response =
                                  error_response(IF raised.type = "MergeValidationError"
                                                 THEN raised.msg
                                                 ELSE "the preview could not be prepared")]
        /\ UNCHANGED <<store, result>>
     \/ /\ pc = "returned"
        /\ result.audit_record = NoRow
        /\ view' = [view EXCEPT !.state = "responded",
                                !.response = success_response("the preview is ready")]
        /\ UNCHANGED <<store, result>>
     \/ /\ pc = "returned"
        /\ result.audit_record # NoRow
        /\ \E failed \in BOOLEAN :
             /\ IF failed THEN UNCHANGED store
                ELSE Write(audit_delete(conn, result.audit_record))
             /\ view' = [view EXCEPT !.state = "responded", !.delete_failed = failed,
                                     !.response = success_response("the preview is ready")]
        /\ result' = [result EXCEPT !.audit_record = NoRow]
  /\ UNCHANGED <<call, merges, registry_vars, profile, pair, audit_model, pc, calls, target, donor,
                 dry_run, overrides, context, exc, hook_i, rel_i, relations_info,
                 processed_through, raised, pre, log, last>>

PreviewInit ==
  /\ profile \in Profiles
  /\ pair = <<"c1", "c2">>
  /\ audit_model \in BOOLEAN
  /\ ServiceCreated
  /\ call = NoStrategyCall
  /\ RegistryCreated
  /\ view = NoRequest
  /\ merges = NoMerges

\* A dry run never enters transaction.atomic().
PreviewNext ==
  \/ \E req \in PreviewRequests : PreviewPost(req)
  \/ PreHook
  \/ ApplyFieldUpdates
  \/ TransferRelations
  \/ RetireDonor
  \/ PostHook
  \/ HardDelete
  \/ Except
  \/ Else
  \/ PreviewRespond

PreviewSpec == PreviewInit /\ [][PreviewNext]_vars

\* ------------------------------------------------------------ the registry

\* A dict that keeps insertion order, as a sequence of entries: a popped
\* entry stays in its place as a dummy and a new key is appended.  (CPython
\* compacts the entries when a sixth one is appended to a dict created
\* empty, which MaxRegistryOps keeps out of reach.)
Dummy == [key |-> NoneVal, live |-> FALSE]
dict_index(d, k) == CHOOSE i \in 1..Len(d) : d[i].live /\ d[i].key = k
dict_contains(d, k) == \E i \in 1..Len(d) : d[i].live /\ d[i].key = k
dict_getitem(d, k) == d[dict_index(d, k)].value
dict_setitem(d, k, v) ==
  IF dict_contains(d, k) THEN [d EXCEPT ![dict_index(d, k)].value = v]
  ELSE Append(d, [key |-> k, live |-> TRUE, value |-> v])
dict_pop(d, k) == IF dict_contains(d, k) THEN [d EXCEPT ![dict_index(d, k)] = Dummy] ELSE d
dict_len(d) == Cardinality({i \in 1..Len(d) : d[i].live})
RECURSIVE dict_values(_)
dict_values(d) ==
  IF d = <<>> THEN <<>>
  ELSE IF Head(d).live THEN <<Head(d).value>> \o dict_values(Tail(d))
  ELSE dict_values(Tail(d))

\* The model classes and labels profiles are registered with.
RegistryModels == {"City", "Tag"}
RegistryLabels == {"city", "tag"}

InvalidProfileError == Exc("InvalidProfileError", "Merge profile must define a label")
ProfileNotFoundError(msg) == Exc("ProfileNotFoundError", msg)
RuntimeError(msg) == Exc("RuntimeError", msg)
StopIteration == Exc("StopIteration", "")

\* No profile: None.
NoProfile == [label |-> NoneVal]

\* A MergeProfile instance for a model class.
ProfileOf(label, model) ==
  [MergeProfile(label, CityFields, NoneVal, FALSE, <<>>, <<>>) EXCEPT !.model = model]

\* MergeProfile(**profile), for a mapping with label and model.
ProfileFromMapping(mapping) ==
  [MergeProfile(mapping.label, <<>>, NoneVal, FALSE, <<>>, <<>>)
     EXCEPT !.model = mapping.model]

\* What register() is called with: a profile or a mapping, the label
\* possibly empty.
RegisterArgs ==
  {[is_mapping |-> FALSE, value |-> ProfileOf(l, m)] :
     l \in RegistryLabels \cup {""}, m \in RegistryModels}
  \cup {[is_mapping |-> TRUE, value |-> [label |-> l, model |-> m]] :
          l \in RegistryLabels \cup {""}, m \in RegistryModels}

\* MergeProfile.get_model_class, for a model given as a class.
get_model_class(p) == p.model

\* Mutant of register: the first profile of an entity type keeps the index.
register_first_wins(d, index, arg) ==
  LET p == IF arg.is_mapping THEN ProfileFromMapping(arg.value) ELSE arg.value
  IN IF p.label = ""
     THEN [_profiles |-> d, _model_index |-> index,
           exc |-> InvalidProfileError, value |-> NoProfile]
     ELSE [_profiles |-> dict_setitem(d, p.label, p),
           _model_index |-> [m \in DOMAIN index \cup {get_model_class(p)} |->
                               IF m \in DOMAIN index THEN index[m] ELSE p],
           exc |-> NoExc, value |-> p]

\* Mutant of register: the profile is stored before its label is looked at.
register_stores_first(d, index, arg) ==
  LET p == IF arg.is_mapping THEN ProfileFromMapping(arg.value) ELSE arg.value
  IN [_profiles |-> dict_setitem(d, p.label, p),
      _model_index |-> [m \in DOMAIN index \cup {get_model_class(p)} |->
                          IF m = get_model_class(p) THEN p ELSE index[m]],
      exc |-> IF p.label = "" THEN InvalidProfileError ELSE NoExc,
      value |-> IF p.label = "" THEN NoProfile ELSE p]

\* MergeProfileRegistry.register: the two dicts afterwards, and what it
\* raised or returned.
register(d, index, arg) ==
  LET p == IF arg.is_mapping THEN ProfileFromMapping(arg.value) ELSE arg.value
  IN IF p.label = ""
     THEN [_profiles |-> d, _model_index |-> index,
           exc |-> InvalidProfileError, value |-> NoProfile]
     ELSE [_profiles |-> dict_setitem(d, p.label, p),
           _model_index |-> [m \in DOMAIN index \cup {get_model_class(p)} |->
                               IF m = get_model_class(p) THEN p ELSE index[m]],
           exc |-> NoExc, value |-> p]

\* MergeProfileRegistry.unregister: the two dicts afterwards.
unregister(d, index, label) ==
  IF ~dict_contains(d, label)
  THEN [_profiles |-> d, _model_index |-> index]
  ELSE [_profiles |-> dict_pop(d, label),
        _model_index |-> [m \in DOMAIN index \ {get_model_class(dict_getitem(d, label))}
                            |-> index[m]]]

\* MergeProfileRegistry.get
get(d, label) ==
  IF dict_contains(d, label)
  THEN [exc |-> NoExc, value |-> dict_getitem(d, label)]
  ELSE [exc |-> ProfileNotFoundError("Merge profile '" \o label \o "' is not registered"),
        value |-> NoProfile]

\* MergeProfileRegistry.get_for_model
get_for_model(index, model) ==
  IF model \in DOMAIN index
  THEN [exc |-> NoExc, value |-> index[model]]
  ELSE [exc |-> ProfileNotFoundError("No merge profile registered for model merge_manager."
                                     \o model),
        value |-> NoProfile]

\* MergeProfileRegistry.all: iter(self._profiles.values()), an iterator over
\* the dict itself.  at_call and yielded are history.
all(d) ==
  [state |-> "active", at_call |-> dict_values(d), yielded |-> <<>>,
   di_used |-> dict_len(d), di_pos |-> 0, len |-> dict_len(d)]

\* next() of the iterator of dict values: the iterator afterwards, and what
\* it yielded or raised.
iter_next(it, d) ==
  LET rest == {i \in 1..Len(d) : i > it.di_pos /\ d[i].live}
      i == CHOOSE j \in rest : \A k \in rest : j <= k
  IN IF it.state = "exhausted"
     THEN [it |-> it, exc |-> StopIteration, value |-> NoProfile]
     ELSE IF it.di_used # dict_len(d)
     THEN [it |-> [it EXCEPT !.state = "changed", !.di_used = -1],
           exc |-> RuntimeError("dictionary changed size during iteration"),
           value |-> NoProfile]
     ELSE IF rest = {}
     THEN [it |-> [it EXCEPT !.state = "exhausted"], exc |-> StopIteration,
           value |-> NoProfile]
     ELSE IF it.len = 0
     THEN [it |-> [it EXCEPT !.state = "exhausted"],
           exc |-> RuntimeError("dictionary keys changed during iteration"),
           value |-> NoProfile]
     ELSE [it |-> [it EXCEPT !.di_pos = i, !.len = @ - 1,
                             !.yielded = Append(@, d[i].value)],
           exc |-> NoExc, value |-> d[i].value]

\* A caller calls a method of the registry.
Called(op, arg, raises, value) ==
  /\ ops < MaxRegistryOps
  /\ ops' = ops + 1
  /\ outcome' = [op |-> op, arg |-> arg, exc |-> raises, value |-> value]
  /\ UNCHANGED <<service, call, merges, view>>

Register(arg) ==
  LET r == register(_profiles, _model_index, arg)
  IN /\ Called("register", arg.value.label, r.exc, r.value)
     /\ _profiles' = r._profiles
     /\ _model_index' = r._model_index
     /\ UNCHANGED iterator

Unregister(label) ==
  LET r == unregister(_profiles, _model_index, label)
  IN /\ Called("unregister", label, NoExc, NoProfile)
     /\ _profiles' = r._profiles
     /\ _model_index' = r._model_index
     /\ UNCHANGED iterator

Get(label) ==
  /\ Called("get", label, get(_profiles, label).exc, get(_profiles, label).value)
  /\ UNCHANGED <<_profiles, _model_index, iterator>>

GetForModel(model) ==
  /\ Called("get_for_model", model, get_for_model(_model_index, model).exc,
            get_for_model(_model_index, model).value)
  /\ UNCHANGED <<_profiles, _model_index, iterator>>

All ==
  /\ Called("all", NoneVal, NoExc, NoProfile)
  /\ iterator' = all(_profiles)
  /\ UNCHANGED <<_profiles, _model_index>>

\* The caller takes the next profile from the iterator all() returned.
IterNext ==
  /\ iterator.state # "none"
  /\ LET r == iter_next(iterator, _profiles)
     IN /\ Called("next", NoneVal, r.exc, r.value)
        /\ iterator' = r.it
  /\ UNCHANGED <<_profiles, _model_index>>

Clear ==
  /\ Called("clear", NoneVal, NoExc, NoProfile)
  /\ _profiles' = <<>>
  /\ _model_index' = EmptyDict
  /\ UNCHANGED iterator

RegistryInit ==
  /\ profile = MergeProfile("city", CityFields, NoneVal, FALSE, <<"pre1">>, <<"post1">>)
  /\ pair = <<"c1", "c2">>
  /\ audit_model = TRUE
  /\ ServiceCreated
  /\ call = NoStrategyCall
  /\ RegistryCreated
  /\ view = NoRequest
  /\ merges = NoMerges

RegistryNext ==
  \/ \E arg \in RegisterArgs : Register(arg)
  \/ \E label \in RegistryLabels : Unregister(label)
  \/ \E label \in RegistryLabels : Get(label)
  \/ \E model \in RegistryModels : GetForModel(model)
  \/ All
  \/ IterNext
  \/ Clear

RegistrySpec == RegistryInit /\ [][RegistryNext]_vars

\* ------------------------------------------------- the strategies, called

\* Field values a strategy is called with: None, '', two strings, a list.
Values == {NoneVal, "", "A", "B", ListValue}

\* Contexts a strategy is called with: no separator, ', ', ''.
StrategyContexts == {EmptyDict, [separator |-> ", "], [separator |-> ""]}

StrategyInit ==
  /\ profile = MergeProfile("city", CityFields, NoneVal, FALSE, <<"pre1">>, <<"post1">>)
  /\ pair = <<"c1", "c2">>
  /\ audit_model = TRUE
  /\ ServiceCreated
  /\ RegistryCreated
  /\ view = NoRequest
  /\ merges = NoMerges
  /\ call \in [fn : FIELD_STRATEGIES, target_value : Values, donor_value : Values,
               context : StrategyContexts, returned : {FALSE}, value : {NoneVal}]

\* The strategy returned value, or raised (value is then the exception).
Return(value) ==
  /\ ~call.returned
  /\ call' = [call EXCEPT !.returned = TRUE, !.value = value]
  /\ UNCHANGED <<service, merges, registry_vars, view>>

PreferTarget ==
  /\ call.fn = "prefer_target"
  /\ Return(prefer_target(call.target_value, call.donor_value, call.context))

PreferDonor ==
  /\ call.fn = "prefer_donor"
  /\ Return(prefer_donor(call.target_value, call.donor_value, call.context))

PreferNonNull ==
  /\ call.fn = "prefer_non_null"
  /\ Return(prefer_non_null(call.target_value, call.donor_value, call.context))

Concat ==
  /\ call.fn = "concat"
  /\ Return(concat(call.target_value, call.donor_value, call.context))

\* --------------------------------------------- profiles from the settings

\* What settings.PROFILES may be: one entry, or a profile and another
\* entry.  An entry is a MergeProfile or a mapping (arg says which), a list
\* of entries, a dotted path (items holds what import_string gives for it),
\* a factory (items holds what it returns) or None; the profiles are one of
\* each label and model.
ProfileSettings ==
  LET Source(kind, arg, items) == [kind |-> kind, arg |-> arg, items |-> items]
      NoArg == [is_mapping |-> FALSE, value |-> NoProfile]
      ListSource(items) == Source("list", NoArg, items)
      PathSource(to) == Source("str", NoArg, <<to>>)
      FactorySource(returns) == Source("function", NoArg, <<returns>>)
      NoneSource == Source("NoneType", NoArg, <<>>)
      Profs ==
        {Source(IF arg.is_mapping THEN "mapping" ELSE "profile", arg, <<>>) :
           arg \in {a \in RegisterArgs :
             \/ ~a.is_mapping /\ a.value.label = "city" /\ a.value.model = "City"
             \/ a.is_mapping /\ a.value.label = "tag" /\ a.value.model = "Tag"
             \/ ~a.is_mapping /\ a.value.label = "tag" /\ a.value.model = "City"}}
      Flat ==
        Profs
        \cup {PathSource(s) : s \in Profs}
        \cup {FactorySource(s) : s \in Profs \cup {NoneSource}}
        \cup {ListSource(<<s>>) : s \in Profs}
        \cup {ListSource(<<s, t>>) : s \in Profs, t \in Profs}
      Nested ==
        {PathSource(ListSource(<<s, t>>)) : s \in Profs, t \in Profs}
        \cup {FactorySource(PathSource(s)) : s \in Profs}
        \cup {ListSource(<<s, n>>) : s \in Profs,
                n \in {PathSource(t) : t \in Profs}
                      \cup {FactorySource(t) : t \in Profs}
                      \cup {ListSource(<<t>>) : t \in Profs}}
  IN {<<s>> : s \in Flat \cup Nested}
     \cup {<<s, t>> : s \in Profs, t \in Flat \cup Nested}

\* _resolve_profile_source: what it returns, to be registered one by one.
RECURSIVE _resolve_profile_source(_)
_resolve_profile_source(source) ==
  CASE source.kind \in {"profile", "mapping"} -> <<source>>
    [] source.kind = "list" -> source.items
    [] source.kind = "str" -> _resolve_profile_source(source.items[1])
    [] source.kind = "function" ->
         IF source.items[1].kind = "NoneType" THEN <<>>
         ELSE _resolve_profile_source(source.items[1])
    [] source.kind = "NoneType" -> <<>>

\* registry.register(profile) for what _resolve_profile_source returned:
\* what is neither a MergeProfile nor a mapping has no label.
register_source(d, index, source) ==
  IF source.kind \in {"profile", "mapping"} THEN register(d, index, source.arg)
  ELSE [_profiles |-> d, _model_index |-> index,
        exc |-> Exc("AttributeError",
                    "'" \o source.kind \o "' object has no attribute 'label'"),
        value |-> NoProfile]

\* load_profiles_from_settings, its loops: the sources are registered in
\* order until one raises.
RECURSIVE register_all(_, _, _)
register_all(d, index, sources) ==
  IF sources = <<>> THEN [_profiles |-> d, _model_index |-> index, exc |-> NoExc]
  ELSE LET r == register_source(d, index, Head(sources))
       IN IF r.exc # NoExc
          THEN [_profiles |-> r._profiles, _model_index |-> r._model_index, exc |-> r.exc]
          ELSE register_all(r._profiles, r._model_index, Tail(sources))

RECURSIVE resolve_each(_)
resolve_each(settings) ==
  IF settings = <<>> THEN <<>>
  ELSE _resolve_profile_source(Head(settings)) \o resolve_each(Tail(settings))

\* load_profiles_from_settings: the registry is cleared, then filled.
load_profiles_from_settings(settings) ==
  register_all(<<>>, EmptyDict, resolve_each(settings))

LoadProfilesFromSettings(settings) ==
  LET r == load_profiles_from_settings(settings)
  IN /\ Called("load_profiles_from_settings", settings, r.exc, NoProfile)
     /\ _profiles' = r._profiles
     /\ _model_index' = r._model_index
     /\ UNCHANGED iterator

LoadNext ==
  \/ \E arg \in RegisterArgs : Register(arg)
  \/ \E settings \in ProfileSettings : LoadProfilesFromSettings(settings)

LoadSpec == RegistryInit /\ [][LoadNext]_vars

\* ------------------------------------------------------ the execute view

\* What an execute request carries: the path it was posted to, the ids, a
\* dry_run entry (absent, or a string already stripped and in lower case)
\* and the field overrides.
ExecuteRequests ==
  [path : {"execute"}, target_id : {"c1", "c2", "c9", ""}, donor_id : {"c1", "c2"},
   dry_run : {NoneVal, "false", "true", "on"}, field_overrides : {EmptyDict}]

\* _to_bool of None or of a stripped lower-case string.
to_bool(value) == value \in {"1", "true", "yes", "y", "on"}

\* Mutant of ExecutePost: target and donor are not compared.
ExecutePost_same_allowed(req) ==
  /\ view.state \in {"idle", "responded"}
  /\ view.requests < MaxRequests
  /\ pc \in {"idle", "returned", "raised"}
  /\ LET received == [view EXCEPT !.requests = @ + 1, !.request = req,
                                  !.delete_failed = FALSE, !.audit_before = db.audit]
         rejected(message) ==
           /\ view' = [received EXCEPT !.state = "responded",
                                       !.response = error_response(message)]
           /\ UNCHANGED <<service, call, merges, registry_vars>>
     IN IF pk_missing(req.target_id) \/ pk_missing(req.donor_id)
        THEN rejected("the merge needs a target and a donor")
        ELSE IF req.target_id \notin DOMAIN db.city \/ req.donor_id \notin DOMAIN db.city
        THEN rejected("the objects were not found for the profile")
        ELSE /\ Merge(Instance(db, req.target_id), Instance(db, req.donor_id),
                      to_bool(req.dry_run), req.field_overrides, EmptyDict)
             /\ view' = [received EXCEPT !.state = "executing"]

\* MergeExecuteAPIView.post, lines 615-655: the request is parsed, target
\* and donor are fetched and merge() is called with the request's dry_run;
\* or the request is turned down before that.
ExecutePost(req) ==
  /\ view.state \in {"idle", "responded"}
  /\ view.requests < MaxRequests
  /\ pc \in {"idle", "returned", "raised"}
  /\ LET received == [view EXCEPT !.requests = @ + 1, !.request = req,
                                  !.delete_failed = FALSE, !.audit_before = db.audit]
         rejected(message) ==
           /\ view' = [received EXCEPT !.state = "responded",
                                       !.response = error_response(message)]
           /\ UNCHANGED <<service, call, merges, registry_vars>>
     IN IF pk_missing(req.target_id) \/ pk_missing(req.donor_id)
        THEN rejected("the merge needs a target and a donor")
        ELSE IF Str(req.target_id) = Str(req.donor_id)
        THEN rejected("target and donor cannot be the same")
        ELSE IF req.target_id \notin DOMAIN db.city \/ req.donor_id \notin DOMAIN db.city
        THEN rejected("the objects were not found for the profile")
        ELSE /\ Merge(Instance(db, req.target_id), Instance(db, req.donor_id),
                      to_bool(req.dry_run), req.field_overrides, EmptyDict)
             /\ view' = [received EXCEPT !.state = "executing"]

\* MergeExecuteAPIView.post, lines 656-674: merge() raised and the view
\* answers with an error; or it returned, the view refreshes target and
\* donor after a real run, going on if that raises, and answers.
ExecuteRespond ==
  /\ view.state = "executing"
  /\ pc \in {"returned", "raised"}
  /\ \/ /\ pc = "raised"
        /\ view' = [view EXCEPT !.state = "responded",
                                !.response =
                                  error_response(IF raised.type = "MergeValidationError"
                                                 THEN raised.msg
                                                 ELSE "the merge could not be run")]
        /\ UNCHANGED <<target, donor>>
     \/ /\ pc = "returned"
        /\ result.dry_run
        /\ view' = [view EXCEPT !.state = "responded",
                                !.response = success_response("dry run, nothing changed")]
        /\ UNCHANGED <<target, donor>>
     \/ /\ pc = "returned"
        /\ ~result.dry_run
        /\ view' = [view EXCEPT !.state = "responded",
                                !.response = success_response("the merge is done")]
        /\ target' = IF target.pk \in DOMAIN db.city THEN Instance(db, target.pk) ELSE target
        /\ donor' = IF donor.pk \in DOMAIN db.city THEN Instance(db, donor.pk) ELSE donor
  /\ UNCHANGED <<call, merges, registry_vars, profile, pair, audit_model, store, pc, calls,
                 dry_run, overrides, context, result, exc, hook_i, rel_i, relations_info,
                 processed_through, raised, pre, log, last>>

\* The service the views of one profile id use: one that soft-deletes the
\* donor, or one that deletes it.
ApiInit ==
  /\ profile \in {p \in Profiles : p.label \in {"city", "city-donor-hard"}}
  /\ pair = <<"c1", "c2">>
  /\ audit_model \in BOOLEAN
  /\ ServiceCreated
  /\ call = NoStrategyCall
  /\ RegistryCreated
  /\ view = NoRequest
  /\ merges = NoMerges

ApiNext ==
  \/ \E req \in PreviewRequests : PreviewPost(req)
  \/ PreviewRespond
  \/ \E req \in ExecuteRequests : ExecutePost(req)
  \/ ExecuteRespond
  \/ AtomicEnter
  \/ PreHook
  \/ ApplyFieldUpdates
  \/ TransferRelations
  \/ RetireDonor
  \/ PostHook
  \/ HardDelete
  \/ AtomicExit
  \/ Except
  \/ Else

ApiSpec == ApiInit /\ [][ApiNext]_vars

\* ------------------------------------------- two merges running at once

\* The rows in which two states of the store differ, as <<table, key, key>>.
Changed(s, t) ==
  {<<"city", c, c>> : c \in {x \in DOMAIN s.city \cup DOMAIN t.city :
      \/ (x \in DOMAIN s.city) # (x \in DOMAIN t.city)
      \/ x \in DOMAIN s.city /\ x \in DOMAIN t.city /\ s.city[x] # t.city[x]}}
  \cup UNION {{<<th, row[1], row[2]>> :
                 row \in (s.links[th] \ t.links[th]) \cup (t.links[th] \ s.links[th])} :
              th \in DOMAIN s.links}
  \cup {<<"office", o, o>> : o \in {x \in DOMAIN s.office \cup DOMAIN t.office :
      \/ (x \in DOMAIN s.office) # (x \in DOMAIN t.office)
      \/ x \in DOMAIN s.office /\ x \in DOMAIN t.office /\ s.office[x] # t.office[x]}}

\* What a statement inside an open transaction sees under READ COMMITTED:
\* the rows the transaction wrote as it left them, every other row as
\* committed.
Overlay(committed, own, written) ==
  LET from(row) == IF row \in written THEN own ELSE committed
  IN [city |-> [c \in {x \in DOMAIN committed.city \cup DOMAIN own.city :
                         x \in DOMAIN from(<<"city", x, x>>).city} |->
                  from(<<"city", c, c>>).city[c]],
      links |-> [th \in DOMAIN committed.links |->
                   {row \in committed.links[th] \cup own.links[th] :
                      row \in from(<<th, row[1], row[2]>>).links[th]}],
      office |-> [o \in {x \in DOMAIN committed.office \cup DOMAIN own.office :
                           x \in DOMAIN from(<<"office", x, x>>).office} |->
                    from(<<"office", o, o>>).office[o]],
      audit |-> committed.audit]

\* Mutant of locks: the engine locks the donor's row when its transaction
\* begins (select_for_update).
locks_donor_row(m) ==
  IF m.pc \in {"idle", "atomic", "else", "returned"} THEN {}
  ELSE m.written \cup {<<"city", m.donor.pk, m.donor.pk>>}

\* The row locks a merge's transaction holds: those the store takes for the
\* rows the transaction wrote, until the with block is left.  merge() asks
\* for none.
locks(m) == m.written

\* The store as the merge's connection sees it.
View(m) == Overlay(db, m.conn, m.written)

\* The store after the statement merge() call m is about to run.
Statement(m) ==
  LET v == View(m)
      rel == Relations[m.rel_i + 1]
      r == apply_field_updates(profile, m.target, m.donor, EmptyDict, FALSE,
                               base_context(EmptyDict, profile, FALSE))
  IN CASE m.pc = "fields" /\ r.update_fields # <<>> ->
            save_fields(v, r.target, r.update_fields)
       [] m.pc = "add" -> m2m_add(v, rel, m.target.pk, m.pks)
       [] m.pc = "remove" -> m2m_remove(v, rel, m.donor.pk, m.pks)
       [] m.pc = "update" -> fk_update(v, m.donor.pk, m.target.pk)
       [] m.pc = "retire" /\ ~profile.hard_delete
            /\ soft_delete_writes(profile, m.donor, FALSE) ->
            save_fields(v, soft_deleted(profile, m.donor),
                        <<get_soft_delete_field(profile)>>)
       [] m.pc = "hard_delete" /\ hard_deletes(profile, FALSE) ->
            delete_city(v, m.donor.pk)
       [] OTHER -> v

\* The statement of call i has to wait: it writes a row the transaction of
\* the other call holds a lock on.
Waits(i) == Changed(View(merges[i]), Statement(merges[i])) \cap locks(merges[3 - i]) # {}

\* The statement of call i is run: m is the call with its other changes.
Ran(i, m) ==
  /\ ~Waits(i)
  /\ merges' = [merges EXCEPT ![i] =
       [m EXCEPT !.conn = Statement(merges[i]),
                 !.written = merges[i].written
                   \cup Changed(View(merges[i]), Statement(merges[i]))]]

\* _transfer_relations goes on to the next relation, or returns.
NextRelation(m, info, processed) ==
  [m EXCEPT !.rel_i = IF m.rel_i + 1 = Len(Relations) THEN 0 ELSE m.rel_i + 1,
            !.pc = IF m.rel_i + 1 = Len(Relations) THEN "retire" ELSE "relations",
            !.relations_info = info,
            !.processed_through = processed,
            !.result = IF m.rel_i + 1 = Len(Relations)
                       THEN [m.result EXCEPT !.relations = info] ELSE m.result]

\* merge(), lines 58-73, called with dry_run=False by a caller that fetched
\* target t and donor d: a second call has the donor of the first and
\* another target.
ConcurrentMerge(i, t, d) ==
  /\ merges[i].pc = "idle"
  /\ t # d
  /\ {t, d} \subseteq DOMAIN db.city
  /\ merges[3 - i].pc # "idle" =>
       /\ merges[3 - i].donor.pk = d
       /\ merges[3 - i].target.pk # t
  /\ merges' = [merges EXCEPT ![i] =
       [@ EXCEPT !.pc = "atomic", !.target = Instance(db, t),
                 !.donor = Instance(db, d), !.result = MergeResult(FALSE)]]
  /\ UNCHANGED <<service, call, registry_vars, view>>

\* with transaction.atomic(): of call i.
ConcurrentAtomicEnter(i) ==
  /\ merges[i].pc = "atomic"
  /\ merges' = [merges EXCEPT ![i] =
       [@ EXCEPT !.pc = "fields", !.conn = db, !.written = {},
                 !.overlapped = merges[3 - i].pc \notin {"idle", "atomic", "else", "returned"}]]
  /\ UNCHANGED <<service, call, registry_vars, view>>

\* _execute, lines 102-108, of call i: _apply_field_updates and its save.
ConcurrentFields(i) ==
  /\ merges[i].pc = "fields"
  /\ LET m == merges[i]
         r == apply_field_updates(profile, m.target, m.donor, EmptyDict, FALSE,
                                  base_context(EmptyDict, profile, FALSE))
     IN Ran(i, [m EXCEPT !.pc = "relations", !.target = r.target,
                         !.result = [m.result EXCEPT !.changed_fields = r.changes]])
  /\ UNCHANGED <<service, call, registry_vars, view>>

\* _transfer_relations of call i, one query at a time: the related pks or
\* the count are read; target_manager.add; manager.remove; queryset.update.
ConcurrentRelation(i) ==
  /\ LET m == merges[i]
         rel == Relations[m.rel_i + 1]
         info == [n \in DOMAIN m.relations_info \cup {rel.name} |->
                    IF n = rel.name THEN relation_info(View(m), rel, m.donor)
                    ELSE m.relations_info[n]]
         processed == IF rel.kind = "one_to_many" THEN m.processed_through
                      ELSE m.processed_through \cup {rel.through}
     IN \/ /\ m.pc = "relations"
           /\ skipped(rel, m.processed_through)
           /\ merges' = [merges EXCEPT ![i] =
                           NextRelation(m, m.relations_info, m.processed_through)]
        \/ /\ m.pc = "relations"
           /\ ~skipped(rel, m.processed_through)
           /\ ~moves(View(m), rel, m.donor, FALSE)
           /\ merges' = [merges EXCEPT ![i] = NextRelation(m, info, processed)]
        \/ /\ m.pc = "relations"
           /\ ~skipped(rel, m.processed_through)
           /\ moves(View(m), rel, m.donor, FALSE)
           /\ merges' = [merges EXCEPT ![i] =
                [m EXCEPT !.pc = IF rel.kind = "one_to_many" THEN "update" ELSE "add",
                          !.pks = IF rel.kind = "one_to_many" THEN {}
                                  ELSE related_pks(View(m), rel, m.donor.pk),
                          !.relations_info = info]]
        \/ /\ m.pc = "add"
           /\ Ran(i, [m EXCEPT !.pc = "remove"])
        \/ /\ m.pc \in {"remove", "update"}
           /\ Ran(i, NextRelation(m, m.relations_info, processed))
  /\ UNCHANGED <<service, call, registry_vars, view>>

\* _execute, lines 110-118, of call i: the donor is retired.
ConcurrentRetire(i) ==
  /\ merges[i].pc = "retire"
  /\ LET m == merges[i]
     IN Ran(i, [m EXCEPT
          !.pc = "hard_delete",
          !.donor = IF ~profile.hard_delete /\ soft_delete_writes(profile, m.donor, FALSE)
                    THEN soft_deleted(profile, m.donor) ELSE m.donor,
          !.result = [m.result EXCEPT !.soft_delete =
             IF profile.hard_delete
             THEN [applied |-> FALSE, reason |-> "hard_delete_enabled", dry_run |-> FALSE]
             ELSE soft_delete_info(profile, m.donor, FALSE)]])
  /\ UNCHANGED <<service, call, registry_vars, view>>

\* _execute, lines 123-141, of call i: the donor is deleted if the profile
\* says so.
ConcurrentHardDelete(i) ==
  /\ merges[i].pc = "hard_delete"
  /\ LET m == merges[i]
     IN Ran(i, [m EXCEPT
          !.pc = "atomic_exit",
          !.donor = IF hard_deletes(profile, FALSE) THEN [m.donor EXCEPT !.pk = NoneVal]
                    ELSE m.donor,
          !.result = [m.result EXCEPT !.hard_delete =
                        hard_delete_info(profile, m.donor, FALSE)]])
  /\ UNCHANGED <<service, call, registry_vars, view>>

\* The with block of call i is left: its rows are committed and its locks
\* released.
ConcurrentAtomicExit(i) ==
  /\ merges[i].pc = "atomic_exit"
  /\ db' = View(merges[i])
  /\ merges' = [merges EXCEPT ![i] = [@ EXCEPT !.pc = "else", !.written = {}]]
  /\ UNCHANGED <<profile, pair, audit_model, conn, in_atomic, pc, calls, target, donor,
                 dry_run, overrides, context, result, exc, hook_i, rel_i, relations_info,
                 processed_through, raised, pre, log, last, call, registry_vars, view>>

\* merge(), lines 86-89, of call i: the status is set, the audit row
\* written and the result returned.
ConcurrentElse(i) ==
  /\ merges[i].pc = "else"
  /\ LET m == merges[i]
         res == [m.result EXCEPT !.status = STATUS_COMPLETED]
         row == audit_row(db, profile, res, m.target, m.donor)
     IN IF audit_model
        THEN /\ db' = audit_create(db, row)
             /\ merges' = [merges EXCEPT ![i] =
                  [m EXCEPT !.pc = "returned",
                            !.result = [res EXCEPT !.audit_record = row]]]
        ELSE /\ db' = db
             /\ merges' = [merges EXCEPT ![i] = [m EXCEPT !.pc = "returned", !.result = res]]
  /\ UNCHANGED <<profile, pair, audit_model, conn, in_atomic, pc, calls, target, donor,
                 dry_run, overrides, context, result, exc, hook_i, rel_i, relations_info,
                 processed_through, raised, pre, log, last, call, registry_vars, view>>

\* Both calls are made on services of one profile: one that soft-deletes
\* the donor, or one that deletes it.
ConcurrentInit ==
  /\ profile \in {p \in Profiles : p.label \in {"city-donor", "city-donor-hard"}}
  /\ pair = <<"c1", "c2">>
  /\ audit_model \in BOOLEAN
  /\ ServiceCreated
  /\ call = NoStrategyCall
  /\ RegistryCreated
  /\ view = NoRequest
  /\ merges = NoMerges

ConcurrentNext ==
  \E i \in 1..2 :
    \/ \E t \in Cities, d \in Cities : ConcurrentMerge(i, t, d)
    \/ ConcurrentAtomicEnter(i)
    \/ ConcurrentFields(i)
    \/ ConcurrentRelation(i)
    \/ ConcurrentRetire(i)
    \/ ConcurrentHardDelete(i)
    \/ ConcurrentAtomicExit(i)
    \/ ConcurrentElse(i)

ConcurrentSpec == ConcurrentInit /\ [][ConcurrentNext]_vars

\* ------------------------------------------ the context of the strategies

\* No strategy was called for a field of the current merge() call.
NoFieldCall ==
  [k \in DOMAIN NoStrategyCall \cup {"field_i"} |->
     IF k = "field_i" THEN 0 ELSE NoStrategyCall[k]]

\* merge(), lines 58-64, and on to _apply_field_updates: the base context
\* is built from the caller's.
ContextMerge(t, d, dry, ov, ctx) ==
  /\ pc = "idle"
  /\ pc' = "fields"
  /\ target' = t
  /\ donor' = d
  /\ dry_run' = dry
  /\ overrides' = ov
  /\ context' = base_context(ctx, profile, dry)
  /\ result' = MergeResult(dry)
  /\ UNCHANGED <<profile, pair, audit_model, store, calls, exc, hook_i, rel_i,
                 relations_info, processed_through, raised, pre, log, last, call,
                 registry_vars, view, merges>>

\* _apply_field_updates, lines 165-194: one round of the loop; unless the
\* field is overridden, its strategy is called with its strategy_context.
FieldStrategy ==
  /\ pc = "fields"
  /\ LET i == call.field_i + 1
         f == profile.fields[i]
         r == field_update([exc |-> NoExc, changes |-> result.changed_fields,
                            update_fields |-> <<>>, target |-> target],
                           f.name, f.rule, donor, overrides, dry_run, context)
         sc == strategy_context(context, f.name, f.rule)
     IN /\ call' = IF f.name \in DOMAIN overrides
                   THEN [NoFieldCall EXCEPT !.field_i = i]
                   ELSE [fn |-> f.rule.strategy, target_value |-> target[f.name],
                         donor_value |-> donor[f.name], context |-> sc,
                         returned |-> TRUE,
                         value |-> CallStrategy(f.rule, target[f.name], donor[f.name], sc),
                         field_i |-> i]
        /\ target' = r.target
        /\ result' = [result EXCEPT !.changed_fields = r.changes]
        /\ pc' = IF i = Len(profile.fields) THEN "relations" ELSE "fields"
  /\ UNCHANGED <<profile, pair, audit_model, store, calls, donor, dry_run, overrides,
                 context, exc, hook_i, rel_i, relations_info, processed_through, raised,
                 pre, log, last, registry_vars, view, merges>>

\* The service's profile has FieldMergeRule(strategy='concat',
\* metadata={'separator': ' / ', 'note': 'n', 'field': 'renamed'}) for name
\* and a rule without metadata for code.
ContextInit ==
  /\ profile =
       MergeProfile("city-metadata",
         << [name |-> "name",
             rule |-> [FieldMergeRule("concat") EXCEPT
                         !.metadata = [separator |-> " / ", note |-> "n",
                                       field |-> "renamed"]]],
            [name |-> "code", rule |-> FieldMergeRule("concat")] >>,
         NoneVal, FALSE, <<>>, <<>>)
  /\ pair \in {pr \in Cities \X Cities : pr[1] # pr[2]}
  /\ audit_model = TRUE
  /\ ServiceCreated
  /\ call = NoFieldCall
  /\ RegistryCreated
  /\ view = NoRequest
  /\ merges = NoMerges

\* Callers pass as context nothing, a separator, or a key the executor
\* sets itself.
ContextNext ==
  \/ \E dry \in BOOLEAN, ov \in {EmptyDict, [name |-> "Merged City"]},
        ctx \in {EmptyDict, [separator |-> "+"], [field |-> "mine", request |-> "r1"]} :
       ContextMerge(Fetch(db, pair[1]), Fetch(db, pair[2]), dry, ov, ctx)
  \/ FieldStrategy

ContextSpec == ContextInit /\ [][ContextNext]_vars

StrategyNext == PreferTarget \/ PreferDonor \/ PreferNonNull \/ Concat

StrategySpec == StrategyInit /\ [][StrategyNext]_vars

\* ----------------------------------------------------------------- claims

\* The call passed validation: a MergeResult exists.
Validated == result # NoResult

\* merge() returned its result to the caller after a real run.
Completed == pc = "returned" /\ ~dry_run

LogHas(e) == \E i \in 1..Len(log) : log[i] = e

\* The writes of target, donor and related rows a call can make.
RowWrites ==
  {"save:target", "save:donor", "delete:donor"}
  \cup {"add:" \o Relations[i].name : i \in 1..Len(Relations)}
  \cup {"remove:" \o Relations[i].name : i \in 1..Len(Relations)}
  \cup {"update:" \o Relations[i].name : i \in 1..Len(Relations)}

ManyToMany == {i \in 1..Len(Relations) : Relations[i].kind # "one_to_many"}

\* C1: during and after a dry-run merge that passed validation no write of
\* the target, the donor or a related row was issued, and the rows, links
\* and foreign keys of the store are those of before the call, whatever the
\* profile.
C1_DryRunWritesNothing ==
  (dry_run /\ Validated) =>
    /\ Data(db) = pre
    /\ Data(conn) = pre
    /\ \A e \in RowWrites : ~LogHas(e)

\* C1's case: a dry run of a hard-deleting profile returned, reporting
\* field changes and links that a real run would have moved.
C1_Witness ==
  /\ pc = "returned"
  /\ dry_run
  /\ profile.hard_delete
  /\ result.changed_fields # EmptyDict
  /\ result.relations["tags"].count > 0
  /\ result.relations["offices"].count > 0

\* C2: when a real merge whose _execute raised hands control back, the
\* rows, links and foreign keys of the store are those of before the call.
C2_FailedMergeLeavesStore ==
  (pc = "raised" /\ ~dry_run /\ Validated /\ exc # NoExc) =>
    /\ Data(db) = pre
    /\ Data(conn) = pre

\* C2's case: a post-merge hook raised after the target's fields, moved
\* links and the donor's soft delete had been written.
C2_Witness ==
  /\ pc = "raised"
  /\ ~dry_run
  /\ exc = HookError("post1")
  /\ LogHas("save:target")
  /\ LogHas("remove:tags")
  /\ LogHas("update:offices")
  /\ LogHas("save:donor")

\* The caller's own context entries.
CallerContext(c) == [k \in DOMAIN c \ {"profile", "dry_run"} |-> c[k]]

\* The applied, field, from and to entries of a soft_delete mapping.
SoftDeleteView(sd) == [k \in DOMAIN sd \cap {"applied", "field", "from", "to"} |-> sd[k]]

\* A returned call and the returned call before it ran in the two modes with
\* the same profile, instances, store, overrides and context.
SamePlanBothModes ==
  /\ pc = "returned"
  /\ last.returned
  /\ last.dry_run # dry_run
  /\ last.pre = pre
  /\ last.overrides = overrides
  /\ CallerContext(last.context) = CallerContext(context)

\* C3: a dry run and a real run of the same merge return the same
\* changed_fields, the same relations and the same applied, field, from and
\* to of soft_delete.
C3_DryRunReportsRealRun ==
  SamePlanBothModes =>
    /\ result.changed_fields = last.changed_fields
    /\ result.relations = last.relations
    /\ SoftDeleteView(result.soft_delete) = SoftDeleteView(last.soft_delete)

\* C3's case: a real run that followed a dry run of the same merge changed
\* fields, moved links and soft-deleted the donor.
C3_Witness ==
  /\ SamePlanBothModes
  /\ ~dry_run
  /\ result.changed_fields # EmptyDict
  /\ result.relations["tags"].count > 0
  /\ result.soft_delete.applied

\* The records City pk is linked to in a many-to-many relation, the two
\* merged cities themselves aside.
LinkedTo(s, rel, pk) == related_pks(s, rel, pk) \ {pair[1], pair[2]}

\* C4 (as claimed): after a completed real merge, in every many-to-many
\* relation, forward and reverse, the records linked to the donor before
\* are linked to the target, the donor holds no link, and the target kept
\* its links.  Links between the two merged cities are left out.
C4_LinksMoveToTarget ==
  Completed =>
    \A i \in ManyToMany :
      /\ LinkedTo(pre, Relations[i], pair[2]) \subseteq LinkedTo(db, Relations[i], pair[1])
      /\ LinkedTo(db, Relations[i], pair[2]) = {}
      /\ LinkedTo(pre, Relations[i], pair[1]) \subseteq LinkedTo(db, Relations[i], pair[1])

\* C5 (as claimed): after a completed real merge the records that pointed
\* at the donor point at the target, none points at the donor, the others
\* are unchanged, and the reported count is the number of re-pointed records.
C5_ForeignKeysRepointed ==
  Completed =>
    /\ \A o \in fk_queryset(pre, pair[2]) :
         o \in DOMAIN db.office /\ db.office[o] = pair[1]
    /\ fk_queryset(db, pair[2]) = {}
    /\ \A o \in DOMAIN pre.office \ fk_queryset(pre, pair[2]) :
         o \in DOMAIN db.office /\ db.office[o] = pre.office[o]
    /\ result.relations["offices"].count = Cardinality(fk_queryset(pre, pair[2]))

\* The profile soft-deletes and its soft-delete field is one City has.
SoftDeletes ==
  /\ ~profile.hard_delete
  /\ get_soft_delete_field(profile) \notin {NoneVal, ""}
  /\ get_soft_delete_field(profile) \in CityAttrs

\* C6: after a completed real merge of a soft-deleting profile the donor
\* row exists, its soft-delete field holds the configured value, which is
\* is_active = False for a profile that names none, and the target
\* instance has the primary key it came with.
C6_DonorSoftDeleted ==
  (Completed /\ SoftDeletes) =>
    /\ pair[2] \in DOMAIN db.city
    /\ db.city[pair[2]][get_soft_delete_field(profile)] = get_soft_delete_value(profile)
    /\ profile.soft_delete_field = NoneVal => db.city[pair[2]].is_active = FALSE
    /\ target.pk = pair[1]
    /\ pair[1] \in DOMAIN db.city

\* C6's case: the donor was active before the merge and target and donor
\* are two rows.
C6_Witness ==
  /\ Completed
  /\ SoftDeletes
  /\ pair[1] # pair[2]
  /\ pre.city[pair[2]].is_active
  /\ result.soft_delete.applied

\* C7: after a completed real merge of a hard-deleting profile the donor row
\* is gone, the merge never saved the donor, soft_delete says not applied
\* for hard_delete_enabled, and hard_delete says enabled, applied and the
\* primary key the donor had.
C7_DonorHardDeleted ==
  (Completed /\ profile.hard_delete) =>
    /\ pair[2] \notin DOMAIN db.city
    /\ ~LogHas("save:donor")
    /\ result.soft_delete.applied = FALSE
    /\ result.soft_delete.reason = "hard_delete_enabled"
    /\ result.hard_delete.enabled
    /\ result.hard_delete.applied
    /\ result.hard_delete.pk = Str(pair[2])

\* C7's case: the deleted donor was a row of its own whose links and
\* offices had been moved to the target.
C7_Witness ==
  /\ Completed
  /\ profile.hard_delete
  /\ pair[1] # pair[2]
  /\ LogHas("delete:donor")
  /\ LogHas("update:offices")
  /\ pair[2] \in DOMAIN pre.city

\* The caller passes something that is no City as target or as donor.
WrongType == pair[1] = "object" \/ pair[2] = "object"

\* C8: a call with a target or donor of the wrong type ends in
\* MergeValidationError with no transaction opened, no hook called, no
\* write issued, no MergeResult and no audit row: the store is untouched.
C8_ValidationFailsFirst ==
  (WrongType /\ calls > 0) =>
    /\ pc = "raised"
    /\ raised.type = "MergeValidationError"
    /\ log = <<>>
    /\ ~in_atomic
    /\ result = NoResult
    /\ db = Fixture
    /\ conn = Fixture

\* C8's case: the donor is of the wrong type, merge() was called twice.
C8_Witness ==
  /\ pair[2] = "object"
  /\ calls = 2
  /\ pc = "raised"
  /\ raised = MergeValidationError("Donor instance must be City, got object")

\* C9 (as claimed), with an audit model configured: when _execute raised,
\* merge() ends with status failed, the exception's message as error and
\* the same exception raised to the caller; and, unless the store refused
\* the audit row, an audit row of status failed with that message and the
\* accumulated changed_fields, relations, soft_delete and hard_delete.
C9_FailureAuditedAndReraised ==
  (pc = "raised" /\ exc # NoExc /\ audit_model) =>
    /\ result.status = STATUS_FAILED
    /\ result.error = exc.msg
    /\ raised = exc
    /\ raised # AuditError =>
         /\ Len(db.audit) > 0
         /\ db.audit[Len(db.audit)] = result.audit_record
         /\ result.audit_record.status = STATUS_FAILED
         /\ result.audit_record.message = exc.msg
         /\ result.audit_record.summary =
              [fields |-> result.changed_fields, relations |-> result.relations,
               soft_delete |-> result.soft_delete, hard_delete |-> result.hard_delete]

\* C10 (as claimed): what merge() raises after _execute raised is the
\* exception of _execute, also when writing the audit row failed.
C10_AuditFailureSwallowed ==
  (pc = "raised" /\ exc # NoExc) => raised = exc

\* The names of the fields the profile lists.
ProfileFields == {profile.fields[i].name : i \in 1..Len(profile.fields)}

\* The rule the profile gives a field.
RuleOf(f) ==
  profile.fields[CHOOSE i \in 1..Len(profile.fields) : profile.fields[i].name = f].rule

\* C11: when merge() returned, every listed field with an override has a
\* change entry exactly if the override differs from the target's value,
\* that entry says source override and holds the override, a real run left
\* the override in the target instance and in its row, whatever the rule's
\* allow_override and strategy; every other change entry says source strategy.
C11_OverrideWins ==
  pc = "returned" =>
    \A f \in ProfileFields :
      IF f \in DOMAIN overrides
      THEN /\ (f \in DOMAIN result.changed_fields) = (overrides[f] # pre.city[pair[1]][f])
           /\ f \in DOMAIN result.changed_fields =>
                /\ result.changed_fields[f].source = "override"
                /\ result.changed_fields[f].to = overrides[f]
           /\ ~dry_run => target[f] = overrides[f]
           /\ (~dry_run /\ pair[1] \in DOMAIN db.city) => db.city[pair[1]][f] = overrides[f]
      ELSE f \in DOMAIN result.changed_fields =>
             result.changed_fields[f].source = "strategy"

\* C11's case: a real run overrode a field whose rule disallows overrides
\* and whose strategy would have taken the donor's value, next to a field
\* the strategy changed.
C11_Witness ==
  /\ pc = "returned"
  /\ ~dry_run
  /\ "name" \in DOMAIN overrides
  /\ ~RuleOf("name").allow_override
  /\ RuleOf("name").strategy = "prefer_donor"
  /\ db.city[pair[1]].name = "Merged City"
  /\ DOMAIN result.changed_fields = {"name", "code"}
  /\ result.changed_fields["name"].source = "override"
  /\ result.changed_fields["code"].source = "strategy"

\* The status merge() gives the result in the branch it is in.
FinalStatus ==
  IF pc = "except" THEN STATUS_FAILED
  ELSE IF dry_run THEN STATUS_DRY_RUN ELSE STATUS_COMPLETED

\* One step of the service, with respect to the audit table.
AuditStep ==
  /\ Len(db.audit') \in {Len(db.audit), Len(db.audit) + 1}
  /\ SubSeq(db.audit', 1, Len(db.audit)) = db.audit
  /\ Len(db.audit') = Len(db.audit) + 1 => pc \in {"except", "else"}
  /\ (pc \in {"except", "else"} /\ audit_model /\ raised' # AuditError) =>
       /\ Len(db.audit') = Len(db.audit) + 1
       /\ result'.audit_record = db.audit'[Len(db.audit')]
       /\ result'.status = FinalStatus
       /\ db.audit'[Len(db.audit')].status = FinalStatus
       /\ db.audit'[Len(db.audit')].dry_run = dry_run
       /\ db.audit'[Len(db.audit')].profile = profile.label

\* C12: with an audit model configured, a validated call adds one row to
\* the audit table, in the except or the else branch of merge() and unless
\* the store refuses it; the row has the final status of the result
\* (completed, dry_run or failed), the call's dry_run and the profile's
\* label; no step of the service removes or rewrites a row, a dry run's
\* included.
C12_OneAuditRowPerCall ==
  /\ [][AuditStep]_vars
  /\ [](pc \in {"returned", "raised"} /\ Validated /\ audit_model /\ raised # AuditError =>
          /\ Len(SelectSeq(log, LAMBDA e : e = "create:audit")) = 1
          /\ result.audit_record \in {db.audit[i] : i \in 1..Len(db.audit)})

\* C12's case: a dry run returned after a failed real run, and the audit
\* table holds the failed row and the dry_run row.
C12_Witness ==
  /\ pc = "returned"
  /\ dry_run
  /\ Len(db.audit) = 2
  /\ db.audit[1].status = STATUS_FAILED
  /\ db.audit[2].status = STATUS_DRY_RUN
  /\ db.audit[2].dry_run
  /\ result.audit_record = db.audit[2]

\* The call that returned and the returned call before it were both dry runs
\* of the same merge with the same overrides and context.
SameDryRunTwice ==
  /\ pc = "returned"
  /\ last.returned
  /\ last.dry_run
  /\ dry_run
  /\ last.overrides = overrides
  /\ CallerContext(last.context) = CallerContext(context)

\* C13: the second of two consecutive dry runs of the same merge returns
\* the changed_fields and relations of the first, and leaves the rows, links
\* and foreign keys of the store as they were before the first.
C13_DryRunTwiceSame ==
  SameDryRunTwice =>
    /\ result.changed_fields = last.changed_fields
    /\ result.relations = last.relations
    /\ Data(db) = last.pre
    /\ pre = last.pre

\* C13's case: both dry runs reported field changes, links to move and a
\* soft delete to apply.
C13_Witness ==
  /\ SameDryRunTwice
  /\ pair[1] # pair[2]
  /\ result.changed_fields # EmptyDict
  /\ result.relations["tags"].count > 0
  /\ result.relations["offices"].count > 0
  /\ result.soft_delete.applied

\* C14 (as claimed): after a completed real merge the target row exists,
\* its soft-delete field is what it was, and the target holds every
\* many-to-many link and every office it held before; links between the two
\* merged cities are left out.
C14_TargetSurvives ==
  Completed =>
    /\ pair[1] \in DOMAIN db.city
    /\ db.city[pair[1]].is_active = pre.city[pair[1]].is_active
    /\ \A i \in ManyToMany :
         LinkedTo(pre, Relations[i], pair[1]) \subseteq LinkedTo(db, Relations[i], pair[1])
    /\ fk_queryset(pre, pair[1]) \subseteq fk_queryset(db, pair[1])

\* A value is empty: null or the empty string.
Empty(v) == v = NoneVal \/ v = ""

\* C15 (as claimed): for all values, prefer_target returns the target value
\* if it is not empty and the donor value otherwise, prefer_non_null the
\* first of target and donor that is not empty, prefer_donor the donor value.
C15_PreferStrategies ==
  call.returned =>
    /\ call.fn = "prefer_target" =>
         call.value = IF ~Empty(call.target_value) THEN call.target_value
                      ELSE call.donor_value
    /\ call.fn = "prefer_non_null" =>
         /\ ~Empty(call.target_value) => call.value = call.target_value
         /\ (Empty(call.target_value) /\ ~Empty(call.donor_value)) =>
              call.value = call.donor_value
    /\ call.fn = "prefer_donor" => call.value = call.donor_value

\* C16 (as claimed): for all values, concat returns the donor value if the
\* target value is empty, the target value if the donor value is empty, and
\* else target, separator and donor joined, the separator being the
\* context's or, without one, a single space.
C16_Concat ==
  (call.returned /\ call.fn = "concat") =>
    call.value =
      IF Empty(call.target_value) THEN call.donor_value
      ELSE IF Empty(call.donor_value) THEN call.target_value
      ELSE Str(call.target_value)
             \o (IF "separator" \in DOMAIN call.context
                 THEN call.context.separator ELSE " ")
             \o Str(call.donor_value)

\* The profiles the registry holds under a label, and their entity types.
Registered == {_profiles[i].value : i \in {j \in 1..Len(_profiles) : _profiles[j].live}}
RegisteredLabels == {_profiles[i].key : i \in {j \in 1..Len(_profiles) : _profiles[j].live}}
RegisteredTypes == {p.model : p \in Registered}

\* The step is a call of the registry method op.
CallOf(op) == ops' = ops + 1 /\ outcome'.op = op

\* C17: register() of a profile or mapping with an empty label raises
\* InvalidProfileError and leaves _profiles and _model_index as they were.
C17_EmptyLabelRejected ==
  [][(CallOf("register") /\ outcome'.arg = "") =>
       /\ outcome'.exc = InvalidProfileError
       /\ _profiles' = _profiles
       /\ _model_index' = _model_index]_vars

\* C17's case: the rejected register() met a registry that held a profile
\* of the same entity type.
C17_Witness ==
  /\ outcome.op = "register"
  /\ outcome.arg = ""
  /\ outcome.exc = InvalidProfileError
  /\ RegisteredTypes = {"City"}
  /\ DOMAIN _model_index = {"City"}

\* C18 (as claimed): the registry never holds two profiles of one entity
\* type, nor two under one label.
C18_OnePerTypeAndLabel ==
  /\ \A p, q \in Registered : p.model = q.model => p = q
  /\ \A i, j \in 1..Len(_profiles) :
       (_profiles[i].live /\ _profiles[j].live /\ _profiles[i].key = _profiles[j].key)
         => i = j

\* C19 (as claimed): get() of a label no profile is registered under and
\* get_for_model() of an entity type no registered profile has raise
\* ProfileNotFoundError; unregister() takes the label out, and changes
\* nothing for a label that is not registered; clear() empties both dicts,
\* and an all() of the empty registry yields nothing.
C19_LookupsOfUnregistered ==
  /\ []((outcome.op = "get" /\ outcome.arg \notin RegisteredLabels)
          => outcome.exc.type = "ProfileNotFoundError")
  /\ []((outcome.op = "get_for_model" /\ outcome.arg \notin RegisteredTypes)
          => outcome.exc.type = "ProfileNotFoundError")
  /\ []((outcome.op = "all" /\ Registered = {}) => iterator.at_call = <<>>)
  /\ [][/\ CallOf("unregister") =>
             /\ outcome'.exc = NoExc
             /\ ~dict_contains(_profiles', outcome'.arg)
             /\ ~dict_contains(_profiles, outcome'.arg) =>
                  (_profiles' = _profiles /\ _model_index' = _model_index)
        /\ CallOf("clear") =>
             (dict_len(_profiles') = 0 /\ DOMAIN _model_index' = {})]_vars

\* C20 (as claimed): the iterator all() returned yields the profiles that
\* were registered when all() was called, in that order, and nothing else,
\* whatever was registered, unregistered or cleared in between.
C20_AllIsSnapshot ==
  /\ iterator.state # "changed"
  /\ Len(iterator.yielded) <= Len(iterator.at_call)
  /\ iterator.yielded = SubSeq(iterator.at_call, 1, Len(iterator.yielded))
  /\ iterator.state = "exhausted" =>
       (iterator.yielded = iterator.at_call /\ outcome.exc.type # "RuntimeError")

\* The fields of the profile whose rule has no strategy get_callable can
\* return, and for which the caller passed no override.
UnresolvedUsed ==
  {f \in ProfileFields : ~CanResolve(RuleOf(f)) /\ f \notin DOMAIN overrides}

\* The current call went through _apply_field_updates.
FieldsDone == LogHas("fields") /\ pc # "fields"

\* C21 (as claimed): a merge that reaches a field whose strategy does not
\* resolve, without an override for it, raises StrategyNotFoundError out of
\* _apply_field_updates and ends as a failed merge: status failed, the
\* exception re-raised unless the store refused the audit row; with an
\* override for the field the rule's strategy is never resolved.
C21_UnresolvedStrategyAtMerge ==
  /\ (FieldsDone /\ UnresolvedUsed # {}) =>
       /\ exc.type = "StrategyNotFoundError"
       /\ pc = "raised" =>
            (result.status = STATUS_FAILED /\ raised \in {exc, AuditError})
  /\ (FieldsDone /\ UnresolvedUsed = {}) =>
       exc.type \notin {"StrategyNotFoundError", "ImportError"}

\* The audit rows the store holds that it did not hold when the request of
\* the view came in.
NewAuditRows ==
  {i \in 1..Len(db.audit) :
     /\ db.audit[i].status # "<deleted>"
     /\ (i > Len(view.audit_before) \/ view.audit_before[i] # db.audit[i])}

\* C22 (as claimed): the preview view runs every merge as a dry run,
\* whatever the request says, and when it has answered, the merge having
\* returned or raised, the store holds no audit row that this request
\* created, unless the store refused to delete it.
C22_PreviewLeavesNoAuditRow ==
  /\ (view.state = "merging" /\ Validated) => (dry_run /\ result.dry_run)
  /\ (view.state = "responded" /\ ~view.delete_failed) => NewAuditRows = {}

\* C23: what another connection reads is the committed store.  While a real
\* merge has not committed, the committed rows, links and foreign keys are
\* those of before the call; they change in one step only, the commit that
\* leaves the atomic block without an exception, and become the working
\* state of the merge with all its writes.
C23_ReaderSeesAllOrNothing ==
  /\ []((~dry_run /\ Validated /\ ~LogHas("commit")) => Data(db) = pre)
  /\ [][(~dry_run' /\ Data(db') # Data(db)) =>
          /\ pc = "atomic_exit"
          /\ exc = NoExc
          /\ Data(db') = Data(conn)
          /\ Data(db) = pre]_vars

\* C23's case: inside the transaction the tags were moved and the offices
\* not yet, and the committed store is still that of before the call.
C23_Witness ==
  /\ in_atomic
  /\ ~dry_run
  /\ pair[1] # pair[2]
  /\ LogHas("remove:tags")
  /\ ~LogHas("update:offices")
  /\ Data(conn) # pre
  /\ Data(db) = pre

\* The events of the log by the step of merge() they belong to.
PreHookEvents == {"hook:" \o profile.pre_merge_hooks[i] : i \in 1..Len(profile.pre_merge_hooks)}
PostHookEvents == {"hook:" \o profile.post_merge_hooks[i] : i \in 1..Len(profile.post_merge_hooks)}
RelationEvents == {"relation:" \o Relations[i].name : i \in 1..Len(Relations)}

\* The place of an event in the order of steps of one merge.
StepOf(e) ==
  CASE e = "atomic" -> 0
    [] e \in PreHookEvents -> 1
    [] e \in {"fields", "save:target"} -> 2
    [] e \in RelationEvents \cup (RowWrites \ {"save:target", "save:donor", "delete:donor"}) -> 3
    [] e \in {"retire", "save:donor"} -> 4
    [] e \in PostHookEvents -> 5
    [] e \in {"hard_delete", "delete:donor"} -> 6
    [] e \in {"commit", "rollback"} -> 7
    [] e = "create:audit" -> 8

\* C24: the events of one merge come in the order pre-hooks, fields,
\* relations, retirement, post-hooks, deletion, end of the transaction,
\* audit write, every step starting only when the one before it is through;
\* the donor is deleted only by a real run of a hard-deleting profile, after
\* all relations and post-hooks; when a post-hook is called the result holds
\* changed_fields, relations and soft_delete and no hard_delete yet; the
\* audit row is written last, with the final status.
C24_StepOrder ==
  /\ \A i \in 1..(Len(log) - 1) : StepOf(log[i]) <= StepOf(log[i + 1])
  /\ LogHas("fields") => \A e \in PreHookEvents : LogHas(e)
  /\ LogHas("relation:" \o Relations[1].name) => LogHas("fields")
  /\ LogHas("retire") => \A e \in RelationEvents : LogHas(e)
  /\ (\E e \in PostHookEvents : LogHas(e)) => LogHas("retire")
  /\ LogHas("hard_delete") => (LogHas("retire") /\ \A e \in PostHookEvents : LogHas(e))
  /\ LogHas("delete:donor") =>
       /\ profile.hard_delete /\ ~dry_run
       /\ \A e \in RelationEvents \cup PostHookEvents : LogHas(e)
  /\ pc = "post_hooks" =>
       /\ DOMAIN result.relations = DOMAIN relations_info
       /\ "offices" \in DOMAIN result.relations
       /\ "applied" \in DOMAIN result.soft_delete
       /\ LogHas("save:target") => result.changed_fields # EmptyDict
       /\ \A f \in DOMAIN result.changed_fields :
            ~dry_run => target[f] = result.changed_fields[f].to
       /\ result.hard_delete = EmptyDict
  /\ LogHas("create:audit") =>
       /\ log[Len(log)] = "create:audit"
       /\ result.status = (IF exc # NoExc THEN STATUS_FAILED
                           ELSE IF dry_run THEN STATUS_DRY_RUN ELSE STATUS_COMPLETED)
       /\ (dry_run \/ LogHas("commit") \/ LogHas("rollback"))

\* C24's case: a real run of a hard-deleting profile with hooks went through
\* every step and returned.
C24_Witness ==
  /\ pc = "returned"
  /\ ~dry_run
  /\ pair[1] # pair[2]
  /\ LogHas("hook:pre1")
  /\ LogHas("save:target")
  /\ LogHas("update:offices")
  /\ LogHas("hook:post1")
  /\ LogHas("delete:donor")
  /\ LogHas("create:audit")
  /\ result.hard_delete.applied

\* The hook calls of the log that are among events, in order.
HookCalls(events) == SelectSeq(log, LAMBDA e : e \in events)

\* The events of calling each of hooks once, in registration order.
HookEvents(hooks) == [i \in 1..Len(hooks) |-> "hook:" \o hooks[i]]

IsPrefix(s, t) == Len(s) <= Len(t) /\ s = SubSeq(t, 1, Len(s))

\* C25: in a dry run and in a real run alike, the pre-merge hooks are
\* called once each in registration order before the fields step, the
\* post-merge hooks once each in order after the retirement and before the
\* deletion step; when a hook raises, nothing follows it but the rollback
\* and the audit write, and the merge ends raised with status failed.
C25_HooksInOrder ==
  /\ IsPrefix(HookCalls(PreHookEvents), HookEvents(profile.pre_merge_hooks))
  /\ IsPrefix(HookCalls(PostHookEvents), HookEvents(profile.post_merge_hooks))
  /\ LogHas("fields") => HookCalls(PreHookEvents) = HookEvents(profile.pre_merge_hooks)
  /\ LogHas("hard_delete") => HookCalls(PostHookEvents) = HookEvents(profile.post_merge_hooks)
  /\ \A i \in 1..Len(log) :
       /\ log[i] \in PreHookEvents =>
            \A j \in 1..(i - 1) : log[j] \in PreHookEvents \cup {"atomic"}
       /\ log[i] \in PostHookEvents =>
            /\ \E j \in 1..(i - 1) : log[j] = "retire"
            /\ \A j \in 1..(i - 1) : log[j] \notin {"hard_delete", "delete:donor"}
  /\ exc.type = "HookError" =>
       /\ pc \in {"atomic_exit", "except", "raised"}
       /\ \E k \in 1..Len(log) :
            /\ log[k] = "hook:" \o exc.msg
            /\ \A j \in (k + 1)..Len(log) : log[j] \in {"rollback", "create:audit"}
       /\ pc = "raised" => result.status = STATUS_FAILED

\* C25's case: in a dry run both pre-merge hooks and the first post-merge
\* hook returned and the second post-merge hook raised.
C25_Witness ==
  /\ pc = "raised"
  /\ dry_run
  /\ exc = HookError("post2")
  /\ HookCalls(PreHookEvents) = <<"hook:pre1", "hook:pre2">>
  /\ HookCalls(PostHookEvents) = <<"hook:post1", "hook:post2">>
  /\ ~LogHas("hard_delete")
  /\ result.status = STATUS_FAILED

\* _apply_field_updates returned in the current call.
FieldsReturned == LogHas("fields") /\ (pc = "relations" \/ LogHas("relation:tags"))

\* The value a listed field resolves to: the override, or what the rule's
\* strategy gives for the values target and donor had at the call.
Resolved(f) ==
  IF f \in DOMAIN overrides THEN overrides[f]
  ELSE CallStrategy(RuleOf(f), pre.city[pair[1]][f], pre.city[pair[2]][f],
                    strategy_context(context, f, RuleOf(f)))

\* C26: once _apply_field_updates returned, a listed field has a change
\* entry exactly if its resolved value differs from the value the target
\* had, and no other field has one; a real run saved the target once if a
\* field changed and not at all if none did, a dry run never; right after
\* the step the target's row holds the resolved value in the changed fields
\* of a real run and the old value everywhere else, the fields the profile
\* does not list and the overrides name included.
C26_ChangedFieldsOnly ==
  FieldsReturned =>
    /\ DOMAIN result.changed_fields \subseteq ProfileFields
    /\ \A f \in ProfileFields :
         (f \in DOMAIN result.changed_fields) = (Resolved(f) # pre.city[pair[1]][f])
    /\ Len(SelectSeq(log, LAMBDA e : e = "save:target")) =
         (IF ~dry_run /\ result.changed_fields # EmptyDict THEN 1 ELSE 0)
    /\ (pc = "relations" /\ rel_i = 0) =>
         \A f \in DOMAIN pre.city[pair[1]] :
           /\ conn.city[pair[1]][f] =
                (IF ~dry_run /\ f \in DOMAIN result.changed_fields
                 THEN Resolved(f) ELSE pre.city[pair[1]][f])
           /\ f \notin ProfileFields => target[f] = pre.city[pair[1]][f]

\* C26's case: a real run with overrides for a listed field and for a field
\* the profile does not list saved the target with the one field that
\* changed; the other listed field resolved to the value the target had.
C26_Witness ==
  /\ pc = "relations"
  /\ rel_i = 0
  /\ ~dry_run
  /\ pair = <<"c2", "c1">>
  /\ "is_active" \in DOMAIN overrides
  /\ "is_active" \notin ProfileFields
  /\ DOMAIN result.changed_fields = {"name"}
  /\ LogHas("save:target")
  /\ conn.city["c2"] = [name |-> "Merged City", code |-> "DN", is_active |-> TRUE]

\* The retirement step of the current call returned: no exception, or one
\* of a step after it.
RetireReturned ==
  LogHas("retire") /\ (exc = NoExc \/ exc.type = "HookError" \/ LogHas("hard_delete"))

\* What _apply_soft_delete reports when soft delete is disabled.
SoftDeleteDisabled == [applied |-> FALSE, reason |-> "soft_delete_disabled"]

FieldMissing ==
  /\ ~profile.hard_delete
  /\ get_soft_delete_field(profile) \notin {NoneVal, ""}
  /\ get_soft_delete_field(profile) \notin CityAttrs

\* C28: with hard_delete false and a soft-delete field the entity type
\* lacks, the retirement step raises nothing, records soft_delete as not
\* applied for field_missing with the field's name and neither sets nor
\* saves the donor; a merge that returns has status completed or dry_run,
\* and a real run has then saved the changed fields, moved the links of
\* every relation that had any and committed.
C28_MissingFieldReported ==
  (FieldMissing /\ LogHas("retire")) =>
    /\ exc = NoExc \/ exc.type = "HookError"
    /\ result.soft_delete = [applied |-> FALSE, reason |-> "field_missing",
                             field |-> get_soft_delete_field(profile)]
    /\ ~LogHas("save:donor")
    /\ donor.is_active = pre.city[pair[2]].is_active
    /\ pc = "returned" =>
         /\ result.status = (IF dry_run THEN STATUS_DRY_RUN ELSE STATUS_COMPLETED)
         /\ ~dry_run =>
              /\ LogHas("commit")
              /\ result.changed_fields # EmptyDict => LogHas("save:target")
              /\ \A i \in 1..Len(Relations) :
                   (/\ Relations[i].name \in DOMAIN result.relations
                    /\ result.relations[Relations[i].name].count > 0)
                     => LogHas(Head(transfer_ops(Relations[i])))

\* C28's case: a real run of the profile whose soft-delete field is
\* 'archived' returned completed, with the target saved, the offices moved
\* and the donor still active.
C28_Witness ==
  /\ pc = "returned"
  /\ ~dry_run
  /\ pair[1] # pair[2]
  /\ profile.soft_delete_field = "archived"
  /\ result.status = STATUS_COMPLETED
  /\ result.soft_delete.reason = "field_missing"
  /\ LogHas("save:target")
  /\ LogHas("update:offices")
  /\ db.city[pair[2]].is_active
  /\ fk_queryset(db, pair[2]) = {}

\* C29: a dry run of a hard-deleting profile that returned left the donor's
\* row in the store as it was, neither saved nor deleted, and reports
\* hard_delete as enabled, not applied, dry_run, and soft_delete as not
\* applied for hard_delete_enabled; a merge of a profile that does not
\* hard-delete reports hard_delete as not enabled and not applied, dry run
\* or not.
C29_DryRunKeepsDonor ==
  pc = "returned" =>
    /\ (dry_run /\ profile.hard_delete) =>
         /\ pair[2] \in DOMAIN db.city
         /\ db.city[pair[2]] = pre.city[pair[2]]
         /\ ~LogHas("save:donor")
         /\ ~LogHas("delete:donor")
         /\ result.hard_delete = [enabled |-> TRUE, applied |-> FALSE, dry_run |-> TRUE]
         /\ result.soft_delete.applied = FALSE
         /\ result.soft_delete.reason = "hard_delete_enabled"
    /\ ~profile.hard_delete =>
         /\ result.hard_delete.enabled = FALSE
         /\ result.hard_delete.applied = FALSE
         /\ result.hard_delete.dry_run = dry_run
         /\ ~LogHas("delete:donor")

\* C29's case: the dry run of a hard-deleting profile found offices and
\* tags on a donor that is a row of its own.
C29_Witness ==
  /\ pc = "returned"
  /\ dry_run
  /\ profile.hard_delete
  /\ pair[1] # pair[2]
  /\ result.relations["offices"].count > 0
  /\ result.relations["tags"].count > 0
  /\ db.city[pair[2]].is_active

\* _transfer_relations returned in the current call.
RelationsReturned == pc = "retire" \/ LogHas("retire")

\* How often the log holds an event.
Times(e) == Len(SelectSeq(log, LAMBDA x : x = e))

\* The relations with an entry in result.relations.
Reported == {i \in 1..Len(Relations) : Relations[i].name \in DOMAIN result.relations}

\* The through tables of the many-to-many relations of City.
Throughs == {Relations[i].through : i \in ManyToMany}

\* C30: _transfer_relations meets every relation of the donor once and
\* moves the links of none twice; when it returned, result.relations holds
\* one entry for every reverse foreign key and one for every join table,
\* that of the forward field when the table is met again as a reverse
\* relation, each with the number of links the donor had at the call; and
\* in a dry run no link was added, removed or re-pointed.
C30_EachRelationOnce ==
  /\ \A e \in RelationEvents \cup (RowWrites \ {"save:target", "save:donor", "delete:donor"}) :
       Times(e) <= 1
  /\ RelationsReturned =>
       /\ DOMAIN result.relations \subseteq {Relations[i].name : i \in 1..Len(Relations)}
       /\ \A i \in 1..Len(Relations) : Times("relation:" \o Relations[i].name) = 1
       /\ \A i \in 1..Len(Relations) : Relations[i].kind = "one_to_many" => i \in Reported
       /\ \A t \in Throughs :
            /\ Cardinality({i \in Reported : Relations[i].through = t}) = 1
            /\ \A i \in ManyToMany :
                 (Relations[i].through = t /\ Relations[i].kind = "many_to_many")
                   => i \in Reported
       /\ \A i \in Reported :
            /\ result.relations[Relations[i].name].type = Relations[i].kind
            /\ result.relations[Relations[i].name].count =
                 relation_count(pre, Relations[i], [pk |-> pair[2]])
       /\ dry_run =>
            /\ \A e \in RowWrites \ {"save:target", "save:donor", "delete:donor"} : Times(e) = 0
            /\ conn.links = pre.links
            /\ conn.office = pre.office

\* C30's case: a real run met the reverse side of the twinnings after the
\* forward field had moved the donor's twinning, skipped it, and moved the
\* group memberships through their reverse relation.
C30_Witness ==
  /\ pc = "returned"
  /\ ~dry_run
  /\ pair[1] # pair[2]
  /\ LogHas("remove:twinned")
  /\ LogHas("relation:twinned_by")
  /\ "twinned_by" \notin DOMAIN result.relations
  /\ result.relations["twinned"].count > 0
  /\ result.relations["groups"].count > 0
  /\ LogHas("remove:groups")

\* C31: a register() that returns leaves the profile it was given as what
\* get_for_model() returns for the profile's entity type, whatever profile
\* of that type was registered before, and as what get() returns for its
\* label, in the place of the profile the label had; the other labels and
\* entity types keep theirs.
C31_LastRegistrationWins ==
  [][(CallOf("register") /\ outcome'.exc = NoExc) =>
       /\ get_for_model(_model_index', outcome'.value.model)
            = [exc |-> NoExc, value |-> outcome'.value]
       /\ get(_profiles', outcome'.value.label)
            = [exc |-> NoExc, value |-> outcome'.value]
       /\ dict_len(_profiles') =
            dict_len(_profiles)
              + (IF dict_contains(_profiles, outcome'.value.label) THEN 0 ELSE 1)
       /\ \A l \in RegistryLabels \ {outcome'.value.label} :
            get(_profiles', l) = get(_profiles, l)
       /\ \A m \in RegistryModels \ {outcome'.value.model} :
            get_for_model(_model_index', m) = get_for_model(_model_index, m)]_vars

\* C31's case: two profiles of City are registered under two labels and
\* the index holds the one registered last, which also took the place of
\* another profile under its label.
C31_Witness ==
  /\ outcome.op = "register"
  /\ outcome.exc = NoExc
  /\ Cardinality(Registered) = 2
  /\ RegisteredTypes = {"City"}
  /\ DOMAIN _model_index = {"City", "Tag"}
  /\ _model_index["City"] = outcome.value
  /\ _model_index["Tag"].label = outcome.value.label

\* C32 (as claimed): get_for_model() finds a profile for an entity type
\* exactly if a profile of that type is registered under a label, the
\* profile it finds is the one get() returns for that profile's label, and
\* unregister() takes out of the entity-type index no entry but that of the
\* profile the label held.
C32_IndicesAgree ==
  /\ [](\A m \in RegistryModels : (m \in DOMAIN _model_index) = (m \in RegisteredTypes))
  /\ [](\A m \in DOMAIN _model_index :
          get(_profiles, _model_index[m].label) = [exc |-> NoExc, value |-> _model_index[m]])
  /\ [][CallOf("unregister") =>
          \A m \in DOMAIN _model_index \ DOMAIN _model_index' :
            /\ dict_contains(_profiles, outcome'.arg)
            /\ _model_index[m] = dict_getitem(_profiles, outcome'.arg)]_vars

\* The step creates the audit row of a real run.
AuditWritten ==
  /\ ~dry_run
  /\ Len(log') = Len(log) + 1
  /\ log'[Len(log')] = "create:audit"

\* C33: in a real run the audit row is created outside the transaction and
\* as the step after its rollback (status failed) or its commit (status
\* completed); when the failed merge hands control back with its row
\* written, the store holds that row and none of the merge's mutations.
C33_AuditAfterTransaction ==
  /\ [][AuditWritten =>
          /\ ~in_atomic
          /\ Len(log) > 0
          /\ log[Len(log)] = (IF exc # NoExc THEN "rollback" ELSE "commit")
          /\ result'.status = (IF exc # NoExc THEN STATUS_FAILED ELSE STATUS_COMPLETED)
          /\ Data(db') = Data(db)
          /\ exc # NoExc => Data(db) = pre]_vars
  /\ []((pc = "raised" /\ ~dry_run /\ Validated /\ audit_model /\ raised = exc) =>
          /\ Len(db.audit) > 0
          /\ db.audit[Len(db.audit)] = result.audit_record
          /\ db.audit[Len(db.audit)].status = STATUS_FAILED
          /\ Data(db) = pre)

\* C33's case: a post-merge hook raised after the target's fields and the
\* donor's soft delete had been written; the failed row is in the store and
\* the rows are those of before the call.
C33_Witness ==
  /\ pc = "raised"
  /\ ~dry_run
  /\ exc = HookError("post1")
  /\ raised = exc
  /\ LogHas("save:target")
  /\ LogHas("save:donor")
  /\ log[Len(log)] = "create:audit"
  /\ log[Len(log) - 1] = "rollback"
  /\ db.audit[Len(db.audit)].status = STATUS_FAILED
  /\ Data(db) = pre

\* C34 (as claimed): when a real merge raised to its caller, whatever
\* raised, the rows, links and foreign keys of the store are those of before
\* the call; and once the store holds a mutation of the merge, the call has
\* returned, or goes on to return, a result of status completed.
C34_RaiseMeansNothingDurable ==
  /\ (pc = "raised" /\ ~dry_run) => Data(db) = pre
  /\ (~dry_run /\ pc # "idle" /\ Data(db) # pre) =>
       \/ pc = "returned" /\ result.status = STATUS_COMPLETED
       \/ pc = "else"

\* The transaction of call i is open.
InTransaction(i) == merges[i].pc \notin {"idle", "atomic", "else", "returned"}

\* C35: of two real merges running at once with one donor and two targets,
\* a call waits only while the other's open transaction has written a row
\* its own next statement writes, the two never wait for each other, and
\* every call that is over returned a result of status completed, whatever
\* the other did to the donor meanwhile.
C35_BothMergesComplete ==
  /\ \A i \in 1..2 :
       Waits(i) =>
         /\ InTransaction(3 - i)
         /\ Changed(View(merges[i]), Statement(merges[i]))
              \cap Changed(db, View(merges[3 - i])) # {}
  /\ ~(Waits(1) /\ Waits(2))
  /\ \A i \in 1..2 :
       merges[i].pc = "returned" =>
         /\ merges[i].result.status = STATUS_COMPLETED
         /\ ~merges[i].result.dry_run
         /\ audit_model =>
              \E k \in 1..Len(db.audit) :
                /\ db.audit[k] = merges[i].result.audit_record
                /\ db.audit[k].status = STATUS_COMPLETED

\* C35's case: both calls returned completed for the donor c2, one into c1
\* and one into c3; the second began while the first's transaction was open,
\* and both audit rows name the same donor.
C35_Witness ==
  /\ merges[1].pc = "returned"
  /\ merges[2].pc = "returned"
  /\ merges[1].target.pk = "c1"
  /\ merges[2].target.pk = "c3"
  /\ merges[2].overlapped
  /\ merges[1].result.status = STATUS_COMPLETED
  /\ merges[2].result.status = STATUS_COMPLETED
  /\ merges[1].result.relations["tags"].count > 0
  /\ merges[2].result.relations["tags"].count > 0
  /\ Len(db.audit) = 2
  /\ db.audit[1].donor_object_id = db.audit[2].donor_object_id
  /\ db.audit[1].target_object_id # db.audit[2].target_object_id

\* The field whose strategy was called last, and its rule.
CalledField == profile.fields[call.field_i]

\* C36: the context a field's strategy is called with has the keys of the
\* caller's context, profile, dry_run, field and rule, and with metadata on
\* the rule, metadata and the metadata's keys, and no other; profile,
\* dry_run, field and rule are the executor's, metadata is the rule's, every
\* other key of the caller's context keeps the caller's value, and a key of
\* the metadata has the metadata's value only where nothing else set it; so
\* concat joins with the caller's separator when there is one.
C36_StrategyContext ==
  call.returned =>
    LET c == call.context
        rule == CalledField.rule
        set == DOMAIN context \cup {"field", "rule"}
                 \cup (IF rule.metadata # EmptyDict THEN {"metadata"} ELSE {})
    IN /\ DOMAIN c = set \cup DOMAIN rule.metadata
       /\ c["profile"] = profile
       /\ c["dry_run"] = dry_run
       /\ c["field"] = CalledField.name
       /\ c["rule"] = rule
       /\ rule.metadata # EmptyDict => c["metadata"] = rule.metadata
       /\ \A k \in DOMAIN context \ {"profile", "dry_run", "field", "rule", "metadata"} :
            c[k] = context[k]
       /\ \A k \in DOMAIN rule.metadata \ set : c[k] = rule.metadata[k]
       /\ ("separator" \in DOMAIN context /\ ~is_empty(call.target_value)
             /\ ~is_empty(call.donor_value)) =>
            call.value = call.target_value \o context["separator"] \o call.donor_value

\* C36's case: the caller gave a separator, the rule of name has one in its
\* metadata, and concat joined the names with the caller's.
C36_Witness ==
  /\ call.returned
  /\ call.field_i = 1
  /\ call.context["separator"] = "+"
  /\ call.context["metadata"]["separator"] = " / "
  /\ call.context["note"] = "n"
  /\ call.value = "Target+Donor"

\* The step receives a request of one of the two views whose target and
\* donor ids are equal, or one of which is the id of no row.
TurnedDown ==
  /\ view'.requests = view.requests + 1
  /\ \/ Str(view'.request.target_id) = Str(view'.request.donor_id)
     \/ view'.request.target_id \notin DOMAIN db.city
     \/ view'.request.donor_id \notin DOMAIN db.city

\* C37: a request to the preview or the execute view with equal ids, or
\* with the id of no row, is answered at once with success false; merge() is
\* not called, and the store, audit table included, and the service are
\* left as they were.
C37_BadIdsRejectedBeforeMerge ==
  [][TurnedDown =>
       /\ view'.state = "responded"
       /\ view'.response.success = FALSE
       /\ calls' = calls
       /\ db' = db
       /\ conn' = conn
       /\ UNCHANGED <<pc, log, result, target, donor, in_atomic>>]_vars

\* C37's case: an execute request deleted the donor c2 in a real run; the
\* next execute request names c2 again and is turned down, with merge()
\* called once and the one audit row of the first request.
C37_Witness ==
  /\ view.state = "responded"
  /\ view.requests = 2
  /\ "path" \in DOMAIN view.request
  /\ view.request.target_id = "c1"
  /\ view.request.donor_id = "c2"
  /\ "c2" \notin DOMAIN db.city
  /\ view.response = error_response("the objects were not found for the profile")
  /\ calls = 1
  /\ Len(db.audit) = 1

\* The profiles and mappings an entry of the settings configures, those in
\* collections, behind paths and from factories included, in order.
RECURSIVE Configured(_)
Configured(sources) ==
  IF sources = <<>> THEN <<>>
  ELSE LET s == Head(sources)
       IN (IF s.kind \in {"profile", "mapping"} THEN <<s.arg>>
           ELSE Configured(s.items)) \o Configured(Tail(sources))

\* The profile a configured profile or mapping stands for.
AsProfile(arg) == IF arg.is_mapping THEN ProfileFromMapping(arg.value) ELSE arg.value

\* The last profile configured for each label.
LastConfigured(args) ==
  {AsProfile(args[i]) : i \in {j \in 1..Len(args) :
     \A k \in (j + 1)..Len(args) : args[k].value.label # args[j].value.label}}

\* C38 (as claimed): load_profiles_from_settings returns for every
\* configured entry, be it a profile, a mapping, a path, a factory or a
\* collection of any of these, and the registry then holds the configured
\* profiles and no other.
C38_SettingsResolved ==
  [][CallOf("load_profiles_from_settings") =>
       /\ outcome'.exc = NoExc
       /\ Registered' = LastConfigured(Configured(outcome'.arg))]_vars

====
